---- MODULE Spec2Model ----
(***************************************************************************)
(* Control and bring-up logic of the AP130X camera ISP driver              *)
(* (drivers/media/i2c/ap130x.c): the paged register transport, the boot    *)
(* sequencer ap130x_hw_init and the stream stall controller.               *)
(*                                                                         *)
(* Every regmap transfer is one atomic step (the bus serialises single     *)
(* transfers); the reads and writes of driver fields around it are steps   *)
(* of their own, so that callers that hold different locks, or none,       *)
(* interleave as they can in the driver.                                   *)
(***************************************************************************)
EXTENDS Integers, Sequences, FiniteSets, TLC

(***************************************************************************)
(* Bounds of the model.                                                    *)
(***************************************************************************)
\* supplies per attached sensor (the sensor tables list 3 or 4)
MaxSensorSupplies == 2
\* iterations of the sampling loop of ap130x_log_lane_state (the driver: 1000)
LaneSamples == 1
\* accesses in a chain of the Register Transport specification
XferLen == 2
\* largest width tag of the sensor register descriptors tried
MaxSipmTag == 4
\* ap130x_s_stream calls in a sequence of the stream specification
StreamCalls == 3
\* ap130x_s_stream calls in a sequence with any value of enable
EnableCalls == 2
\* polls of one wait of a debugfs task that may find the DMA engine busy
MaxBusyPolls == 2
\* reads and writes of sipm_data made on one device
MaxProxyCalls == 2
\* bytes of the firmware payload and of the firmware window
MaxPayload == 6
MaxWindow == 4

(***************************************************************************)
(* Program constants.                                                      *)
(***************************************************************************)
AP130X_FW_WINDOW_SIZE == 8192
AP130X_FW_WINDOW_OFFSET == 32768
AP130X_CHIP_ID == 613
AP130X_REG_ADV_START == 57344
AP130X_NUM_SUPPLIES == 3
MAX_FW_LOAD_RETRIES == 3
\* sizeof(struct ap130x_firmware_header): four packed u32
FW_HEADER_SIZE == 16
\* ARRAY_SIZE(ap130x->sensors)
NUM_SENSORS == 2
NUM_LANES == 4

(***************************************************************************)
(* Register descriptors: (width << 24) | page | address.                   *)
(***************************************************************************)
AP130X_REG_16BIT(n) == 2 * 16777216 + n
AP130X_REG_32BIT(n) == 4 * 16777216 + n
AP130X_REG_SIZE(n) == n \div 16777216
AP130X_REG_ADDR(n) == n % 65536
AP130X_REG_PAGE(n) == ((n \div 65536) % 256) * 65536

AP130X_CHIP_VERSION == AP130X_REG_16BIT(0)
AP130X_CHIP_REV == AP130X_REG_16BIT(80)
AP130X_BOOTDATA_STAGE == AP130X_REG_16BIT(24578)
AP130X_SYS_START == AP130X_REG_16BIT(24602)
AP130X_ADVANCED_BASE == AP130X_REG_32BIT(61496)
AP130X_DMA_SRC == AP130X_REG_32BIT(24736)
AP130X_DMA_DST == AP130X_REG_32BIT(24740)
AP130X_DMA_SIZE == AP130X_REG_32BIT(24744)
AP130X_DMA_SIP_SIPM(n) == n * 67108864
AP130X_DMA_SIP_DATA_16_BIT == 33554432
AP130X_DMA_SIP_ADDR_16_BIT == 16777216
AP130X_DMA_SIP_ID(n) == n * 131072
AP130X_DMA_CTRL_DST_SIP == 768
AP130X_DMA_CTRL_SRC_SIP == 48
AP130X_DMA_CTRL_MODE_COPY == 2
\* .i2c_addr of the first entry of ap130x_sensor_info
SENSOR_I2C_ADDR == 16
AP130X_DMA_CTRL == AP130X_REG_16BIT(24748)
AP130X_DMA_CTRL_MODE_MASK == 7
AP130X_DMA_CTRL_MODE_IDLE == 0
\* ap130x_dma_wait_idle: for (i = 50; i > 0; i--)
DMA_WAIT_POLLS == 50
AP130X_SIP_CRC == AP130X_REG_16BIT(61522)
AP130X_ADV_IRQ_SYS_INTE == AP130X_REG_32BIT(2293760)
AP130X_ADV_CAPTURE_A_FV_CNT == AP130X_REG_32BIT(4784192)
AP130X_ADV_SINF_MIPI_INTERNAL_p_LANE_n_STAT(p, n) == AP130X_REG_32BIT(4325384 + p * 327680 + n * 32)
\* the info and warning registers ap130x_log_status reads (all of page 0)
AP130X_ERROR == AP130X_REG_16BIT(6)
AP130X_FRAME_CNT == AP130X_REG_16BIT(2)
\* the preview-context registers ap130x_configure writes (all of page 0)
AP130X_PREVIEW_WIDTH == AP130X_REG_16BIT(8192)
AP130X_PREVIEW_HEIGHT == AP130X_REG_16BIT(8194)
AP130X_PREVIEW_OUT_FMT == AP130X_REG_16BIT(8210)
AP130X_PREVIEW_HINF_CTRL == AP130X_REG_16BIT(8240)
\* one of the control registers ap130x_s_ctrl writes (all of page 0)
AP130X_BRIGHTNESS == AP130X_REG_16BIT(28672)

\* AP130X_SYS_START bits
AP130X_SYS_START_PLL_LOCK == 32768
AP130X_SYS_START_STALL_STATUS == 512
AP130X_SYS_START_STALL_EN == 256
AP130X_SYS_START_STALL_MODE_DISABLED == 64

(***************************************************************************)
(* Error codes (0 is OK).  The bus may fail a transfer with any errno; EIO *)
(* and EAGAIN (arbitration lost) stand for them, EAGAIN being the one the  *)
(* boot sequencer compares against.                                        *)
(***************************************************************************)
OK == "OK"
BusErrors == {"EIO", "EAGAIN"}
RegulatorErrors == {"ENODEV"}

(***************************************************************************)
(* The firmware files request_firmware may find.  size is the file size,   *)
(* the other fields are the header's; a file shorter than the header has   *)
(* no readable header.                                                     *)
(***************************************************************************)
NoFile == [present |-> FALSE, size |-> 0, pll_init_size |-> 0, total_size |-> 0]
FwFile(sz, pll, tot) == [present |-> TRUE, size |-> sz, pll_init_size |-> pll, total_size |-> tot]
FwFiles ==
    { NoFile,
      FwFile(8, 0, 0),
      FwFile(FW_HEADER_SIZE + 10000, 100, 10000),
      FwFile(FW_HEADER_SIZE + 100, 200, 100),
      FwFile(FW_HEADER_SIZE + 100, 100, 100),
      FwFile(FW_HEADER_SIZE + 100, 50, 20) }

Sensors == 0 .. (NUM_SENSORS - 1)
SensorSupplyIds == 0 .. (MaxSensorSupplies - 1)
IspSupplyIds == 0 .. (AP130X_NUM_SUPPLIES - 1)

\* Attached-sensor topologies: the test pattern generator has no supply
\* table and no sensor; otherwise at least one sensor slot is populated.
Topologies ==
    { [has_supplies |-> FALSE, num |-> [i \in Sensors |-> 0]] } \cup
    { [has_supplies |-> TRUE, num |-> n] :
        n \in { f \in [Sensors -> {0, MaxSensorSupplies}] : \E i \in Sensors : f[i] # 0 } }

Threads == {"probe", "stream", "log", "ctrl", "xfer", "sipm", "dbg1", "dbg2"}

VARIABLES
    \* ---- environment, fixed for a run
    fw_file,        \* the file request_firmware finds
    topo,           \* sensor_info->supplies and sensors[i].num_supplies
    chip_version,   \* content of the chip's version register
    crc_mismatch,   \* load attempts after which the chip's CRC accumulator differs from the header CRC
    window,         \* size in bytes of the chip's firmware window
    \* ---- hardware
    isp_sup,        \* enable count of each ISP regulator
    clk_en,         \* enable count of the ISP clock
    reset_gpio,     \* 1 = RESET asserted
    sen_sup,        \* enable count of each sensor regulator
    chip_page,      \* page selected in the chip (0 after reset)
    chip_stage,     \* chip's bootdata stage register
    chip_sys_start, \* last value written to the chip's SYS_START register (0 after reset)
    chip_crc_ok,    \* chip's CRC accumulator equals the header CRC
    chip_dma,       \* chip's DMA size, source and destination registers, and the
                    \* registers of the sensors behind its ports
    \* ---- driver state (struct ap130x_device)
    reg_page,       \* ap130x->reg_page
    streaming,      \* ap130x->streaming
    fw,             \* ap130x->fw: "none", "held", "released"
    debugfs,        \* ap130x->debugfs: the directory exists, the owner of debugfs.lock,
                    \* sipm_addr
    lock,           \* owner of ap130x->lock, or "free"
    \* ---- callers
    pc,             \* position of each caller
    ph,             \* phase inside ap130x_read / ap130x_write: "call", "select", "update", "target"
    ret,            \* each caller's ret / sticky error slot
    retries,        \* ap130x_hw_init's loop counter
    version,        \* ap130x_detect_chip's version (-1 before the read)
    win_pos,        \* ap130x_load_firmware's window cursor
    fw_len,         \* bytes left of the segment ap130x_write_fw_window is writing
    lane,           \* ap130x_log_lane_state: sensor index, loop counter i, lane, samples
    xfer,           \* a chain of register accesses of one caller: the accesses, the
                    \* position in the chain, the values returned so far, the cached
                    \* page when the chain started
    sipm,           \* ap130x_sipm_read / ap130x_sipm_write: the call, its arguments, the
                    \* loop counter i of ap130x_dma_wait_idle
    calls,          \* a sequence of ap130x_s_stream calls of one caller: the enable
                    \* arguments, the number of calls begun, the value of streaming
                    \* when the latest began
    \* ---- observation
    power_ons,      \* completed ap130x_power_on calls
    fw_written,     \* firmware bytes written since the last power-on
    fw_releases,    \* release_firmware calls on the obtained image
    unwind,         \* steps of the error unwind of ap130x_hw_init, in order, each with
                    \* whether what it turns off or releases was on or held
    io_fail,        \* first failed bus transfer of the boot: its error and the power-on count then
    fault_seen,     \* some bus transfer or regulator/clock enable has failed
    sel_since_on,   \* a page-select write reached the chip since the last power-on
    bad_access,     \* an advanced-page register was accessed while the chip had another page selected
    sen_ops,        \* regulator calls made by ap130x_power_on_sensors, in order
    bus             \* bus transfers made for the logged callers, in order; those of
                    \* the probe since the last power-on

env_vars == <<fw_file, topo, chip_version, crc_mismatch, window>>
hw_vars == <<isp_sup, clk_en, reset_gpio, sen_sup, chip_page, chip_stage, chip_sys_start, chip_crc_ok, chip_dma>>
dev_vars == <<reg_page, streaming, fw, lock, debugfs>>
call_vars == <<pc, ph, ret, retries, version, win_pos, fw_len, lane, xfer, sipm, calls>>
obs_vars == <<power_ons, fw_written, fw_releases, unwind, io_fail, fault_seen, sel_since_on,
              bad_access, sen_ops, bus>>
vars == <<env_vars, hw_vars, dev_vars, call_vars, obs_vars>>

NoFail == [err |-> OK, at |-> 0]

P == "probe"

\* The ISP is powered: ap130x_power_on ran to its end (RESET de-asserted).
IspPowered == reset_gpio = 0

\* fw_size of ap130x_request_firmware / ap130x_load_firmware
FwSize == fw_file.size - FW_HEADER_SIZE

(***************************************************************************)
(* Register accesses.  A caller at one of the labels below is inside       *)
(* ap130x_read or ap130x_write of the label's register.                    *)
(***************************************************************************)
\* the four ap130x_write(..., &ret) of ap130x_sipm_read / ap130x_sipm_write
SipmWrites == {"sipm_size", "sipm_src", "sipm_dst", "sipm_ctrl"}
StickyLabels ==
    {"stall_req", "stall_en", "cfg_hinf", "cfg_width", "cfg_height", "cfg_fmt", "xfer_write_err"}
        \cup SipmWrites
ReadLabels ==
    {"detect_version", "detect_revision", "log_regs", "log_frame_cnt", "log_fv_cnt", "lane_read",
     "xfer_read", "dma_poll", "sipm_result"}
\* the accesses of a chain: ap130x_read(reg, &val), ap130x_write(reg, val, NULL)
\* and ap130x_write(reg, val, &ret)
XferLabels == {"xfer_read", "xfer_write", "xfer_write_err"}
WriteLabels ==
    {"lf_crc_clear", "lf_stage2", "lf_stage_done", "stall_req", "stall_en", "stall_inte",
     "unstall", "cfg_hinf", "cfg_width", "cfg_height", "cfg_fmt", "cfg_ctrls",
     "lane_reset", "ctrl_write", "xfer_write", "xfer_write_err"} \cup SipmWrites
AccessLabels == ReadLabels \cup WriteLabels

RegOf(t) ==
    CASE pc[t] = "detect_version" -> AP130X_CHIP_VERSION
      [] pc[t] = "detect_revision" -> AP130X_CHIP_REV
      [] pc[t] = "lf_crc_clear" -> AP130X_SIP_CRC
      [] pc[t] \in {"lf_stage2", "lf_stage_done"} -> AP130X_BOOTDATA_STAGE
      [] pc[t] \in {"stall_req", "stall_en", "unstall"} -> AP130X_SYS_START
      [] pc[t] = "stall_inte" -> AP130X_ADV_IRQ_SYS_INTE
      [] pc[t] = "cfg_hinf" -> AP130X_PREVIEW_HINF_CTRL
      [] pc[t] = "cfg_width" -> AP130X_PREVIEW_WIDTH
      [] pc[t] = "cfg_height" -> AP130X_PREVIEW_HEIGHT
      [] pc[t] = "cfg_fmt" -> AP130X_PREVIEW_OUT_FMT
      [] pc[t] = "log_regs" -> AP130X_ERROR
      [] pc[t] = "log_frame_cnt" -> AP130X_FRAME_CNT
      [] pc[t] = "log_fv_cnt" -> AP130X_ADV_CAPTURE_A_FV_CNT
      [] pc[t] \in {"lane_read", "lane_reset"} ->
            AP130X_ADV_SINF_MIPI_INTERNAL_p_LANE_n_STAT(lane.p, lane.n)
      [] pc[t] \in {"cfg_ctrls", "ctrl_write"} -> AP130X_BRIGHTNESS
      [] pc[t] \in XferLabels -> xfer.chain[xfer.idx].reg
      [] pc[t] \in {"dma_poll", "sipm_ctrl"} -> AP130X_DMA_CTRL
      [] pc[t] = "sipm_size" -> AP130X_DMA_SIZE
      [] pc[t] = "sipm_src" -> AP130X_DMA_SRC
      [] pc[t] \in {"sipm_dst", "sipm_result"} -> AP130X_DMA_DST

\* the value a write label writes (0 where the model does not follow it)
\* the two values of the bootdata stage exchanged
ValOf_StagesExchanged(t) ==
    CASE pc[t] = "lf_stage2" -> 65535
      [] pc[t] = "lf_stage_done" -> 2
      [] OTHER -> 0

ValOf(t) ==
    CASE pc[t] = "lf_stage2" -> 2
      [] pc[t] = "lf_stage_done" -> 65535
      [] pc[t] = "stall_req" ->
            AP130X_SYS_START_PLL_LOCK + AP130X_SYS_START_STALL_MODE_DISABLED
      [] pc[t] = "stall_en" ->
            AP130X_SYS_START_PLL_LOCK + AP130X_SYS_START_STALL_EN
            + AP130X_SYS_START_STALL_MODE_DISABLED
      [] pc[t] = "unstall" ->
            AP130X_SYS_START_PLL_LOCK + AP130X_SYS_START_STALL_STATUS
            + AP130X_SYS_START_STALL_EN + AP130X_SYS_START_STALL_MODE_DISABLED
      [] OTHER -> 0

InAccess(t) == pc[t] \in AccessLabels
\* the sticky slot never consulted
Latched_Never(t) == FALSE

\* ap130x_write: if (err && *err) return *err;
Latched(t) == pc[t] \in StickyLabels /\ ret[t] # OK

\* every width tag transferred
TransferResults_AnyWidth(reg) == {OK} \cup BusErrors

\* __ap130x_write / __ap130x_read: the results of one transfer of reg.  The
\* width tag picks the regmap; any other tag is -EINVAL with no transfer.
TransferResults(reg) ==
    IF AP130X_REG_SIZE(reg) \in {2, 4} THEN {OK} \cup BusErrors ELSE {"EINVAL"}

\* lines 598-599 / 655-656: the descriptor sent for a paged descriptor
AdvancedReg(reg) ==
    IF AP130X_REG_PAGE(reg) # 0
    THEN (reg - AP130X_REG_PAGE(reg)) + AP130X_REG_ADV_START
    ELSE reg

\* __ap130x_write / __ap130x_read, lines 558-569 / 617-628: the register
\* space the width tag dispatches to
Regmap(reg) ==
    CASE AP130X_REG_SIZE(reg) = 2 -> "regmap16"
      [] AP130X_REG_SIZE(reg) = 4 -> "regmap32"
      [] OTHER -> "none"

\* one call of __ap130x_write / __ap130x_read for caller t: what goes on the
\* bus, if anything does
Transfer(t, k, reg, val, e) ==
    [kind |-> k, tag |-> AP130X_REG_SIZE(reg), addr |-> AP130X_REG_ADDR(reg),
     regmap |-> Regmap(reg), val |-> val, res |-> e,
     acc |-> IF t = "xfer" THEN xfer.idx ELSE IF t = "stream" THEN calls.n ELSE 0]
\* the callers whose transfers are logged
Logged(t) == t \in {P, "xfer", "sipm"} \/ (t = "stream" /\ calls.n > 0)
LogBus(t, x) ==
    IF Logged(t) /\ x.regmap # "none" THEN Append(bus, x) ELSE bus

Goto(t, l, r) ==
    /\ pc' = [pc EXCEPT ![t] = l]
    /\ ph' = [ph EXCEPT ![t] = "call"]
    /\ ret' = [ret EXCEPT ![t] = r]

\* the first failed bus transfer of the boot
NoteFail(t, e) ==
    IF t = P /\ e # OK /\ io_fail.err = OK THEN [err |-> e, at |-> power_ons] ELSE io_fail

(***************************************************************************)
(* What each caller does with the result e of the access it is in: the     *)
(* statements that follow the ap130x_read / ap130x_write call, up to the   *)
(* next register access or power step.  Sets call_vars, streaming, lock.   *)
(***************************************************************************)

\* ap130x_detect_chip without the comparison against AP130X_CHIP_ID
DetectChipReturn_NoIdCheck(e, v) == e

\* ap130x_detect_chip, lines 2500-2515: its result once the revision read
\* returned e, the version read having returned v
DetectChipReturn(e, v) ==
    IF e # OK THEN e
    ELSE IF v # AP130X_CHIP_ID THEN "EINVAL"
    ELSE OK

\* ap130x_hw_init, lines 2550-2567: the result of ap130x_load_firmware
LoadReturn(t, e) ==
    IF e = OK THEN Goto(t, "hw_ready", OK)
    ELSE IF e # "EAGAIN" THEN Goto(t, "error_power", e)
    ELSE Goto(t, "retry_power_off", e)

\* the stream state cleared whatever ap130x_stall(true) returned
StallReturn_AlwaysStalled(t, e) ==
    /\ streaming' = FALSE
    /\ IF t = P
       THEN LoadReturn(t, e) /\ UNCHANGED lock
       ELSE Goto(t, "idle", e) /\ lock' = "free"

\* the return of ap130x_stall(true) to its caller: ap130x_load_firmware
\* (lines 2483-2487) or ap130x_s_stream (lines 1783-1789)
StallReturn(t, e) ==
    /\ streaming' = IF e = OK THEN FALSE ELSE streaming
    /\ IF t = P
       THEN LoadReturn(t, e) /\ UNCHANGED lock
       ELSE Goto(t, "idle", e) /\ lock' = "free"

\* ap130x_log_status, lines 2036-2040: if (!sensor->ap130x) continue;
\* a slot is attached when the device tree describes a sensor for it
SensorAttached(i) == topo.num[i] # 0

\* the first attached sensor slot from i on (NUM_SENSORS: none)
NextSensor(i) ==
    IF \E j \in Sensors : j >= i /\ SensorAttached(j)
    THEN CHOOSE j \in Sensors :
            /\ j >= i /\ SensorAttached(j)
            /\ \A k \in Sensors : (k >= i /\ SensorAttached(k)) => j <= k
    ELSE NUM_SENSORS

NoLane == [p |-> 0, s |-> 0, n |-> 0, samples |-> 0]
NoXfer == [chain |-> <<>>, idx |-> 0, rets |-> <<>>, start |-> 0]
NoDebugfs == [dir |-> FALSE, lock |-> "free", sipm_addr |-> [i |-> 0, low |-> 0]]
NoCalls == [script |-> <<>>, n |-> 0, was |-> FALSE]
\* values of the int argument enable of ap130x_s_stream (line 1764): off,
\* on as the V4L2 core passes it, and another non-zero value
EnableValues == {0, 1, 2}
\* the bool ap130x->streaming promoted to int in enable == ap130x->streaming
\* (line 1771)
BoolAsInt(b) == IF b THEN 1 ELSE 0
\* the latest proxy call that has returned: what it was and what it returned
NoPrev == [op |-> "none", port |-> 0, reg |-> 0, val |-> 0, ret |-> "none"]
NoSipm ==
    [op |-> "none", port |-> 0, reg |-> 0, val |-> 0, i |-> 0, wait |-> 0,
     seen |-> <<>>, waits |-> <<>>, n |-> 0, prev |-> NoPrev]

(***************************************************************************)
(* The DMA engine of the chip and the sensors behind it, as the comments   *)
(* of ap130x_sipm_read and ap130x_sipm_write describe them.  A 32-bit      *)
(* register value is kept as its two 16-bit halves.                        *)
(***************************************************************************)
U32(n) == [hi |-> (n \div 65536) % 65536, lo |-> n % 65536]

NoDma == [size |-> U32(0), src |-> U32(0), dst |-> U32(0), sensor |-> <<>>]

\* lines 709-713 / 781-785: the sensor register descriptor
SipDescriptor(port, reg) ==
    AP130X_DMA_SIP_SIPM(port)
    + (IF AP130X_REG_SIZE(reg) = 2 THEN AP130X_DMA_SIP_DATA_16_BIT ELSE 0)
    + AP130X_DMA_SIP_ADDR_16_BIT
    + AP130X_DMA_SIP_ID(SENSOR_I2C_ADDR)
    + AP130X_REG_ADDR(reg)

\* ap130x_sipm_write with the value shifted as in ap130x_sipm_read, by
\* 32 - size * 8
SipmWriteSrc_ShiftBySize(size, val) ==
    IF size = 1 THEN [hi |-> (val % 256) * 256, lo |-> AP130X_REG_ADDR(AP130X_DMA_SRC)]
    ELSE [hi |-> val % 65536, lo |-> AP130X_REG_ADDR(AP130X_DMA_SRC)]

\* line 774: (val << 16) | AP130X_REG_ADDR(AP130X_DMA_SRC), in 32 bits
SipmWriteSrc(size, val) ==
    [hi |-> val % 65536, lo |-> AP130X_REG_ADDR(AP130X_DMA_SRC)]

\* the value ap130x_sipm_read / ap130x_sipm_write writes at label l
SipmValOf(l) ==
    LET size == AP130X_REG_SIZE(sipm.reg)
        desc == U32(SipDescriptor(sipm.port, sipm.reg))
    IN  CASE l = "sipm_size" -> U32(size)
          [] l = "sipm_src" ->
                IF sipm.op = "read" THEN desc ELSE SipmWriteSrc(size, sipm.val)
          [] l = "sipm_dst" ->
                IF sipm.op = "read" THEN U32(AP130X_REG_ADDR(AP130X_DMA_DST)) ELSE desc
          [] l = "sipm_ctrl" ->
                IF sipm.op = "read"
                THEN U32(AP130X_DMA_CTRL_SRC_SIP + AP130X_DMA_CTRL_MODE_COPY)
                ELSE U32(AP130X_DMA_CTRL_DST_SIP + AP130X_DMA_CTRL_MODE_COPY)

\* the byte of a sensor register; 0 until it is written
SensorByte(port, a) ==
    IF <<port, a>> \in DOMAIN chip_dma.sensor THEN chip_dma.sensor[<<port, a>>] ELSE 0

\* the port and the register address of a sensor register descriptor d
SipPort(d) == (d.hi \div 1024) % 4
SipReg(d) == d.lo

\* A copy from the DMA_SRC register to a sensor (comment of lines 765-774):
\* a 16-bit value is taken from bits 31:16 of the register, an 8-bit value
\* from DMA_SRC + 1, bits 23:16.
ChipCopyToSensor ==
    LET n == chip_dma.size.lo
        port == SipPort(chip_dma.dst)
        a == SipReg(chip_dma.dst)
        new == IF n = 1 THEN (<<port, a>> :> (chip_dma.src.hi % 256))
               ELSE IF n = 2 THEN (<<port, a>> :> (chip_dma.src.hi \div 256))
                                  @@ (<<port, a + 1>> :> (chip_dma.src.hi % 256))
               ELSE <<>>
    IN  [chip_dma EXCEPT !.sensor = new @@ chip_dma.sensor]

\* A copy from a sensor to the DMA_DST register (comment of lines 738-742):
\* the value is stored big-endian at the address of the register, an 8-bit
\* value in bits 31:24 and a 16-bit value in bits 31:16.
ChipCopyFromSensor ==
    LET n == chip_dma.size.lo
        port == SipPort(chip_dma.src)
        a == SipReg(chip_dma.src)
        hi == IF n = 1 THEN SensorByte(port, a) * 256 + (chip_dma.dst.hi % 256)
              ELSE IF n = 2 THEN SensorByte(port, a) * 256 + SensorByte(port, a + 1)
              ELSE chip_dma.dst.hi
    IN  [chip_dma EXCEPT !.dst.hi = hi]

\* the chip's DMA registers and the sensors after the write caller t makes
\* at its label reached the chip
ChipDmaWrite(t) ==
    LET v == SipmValOf(pc[t]) IN
    CASE pc[t] = "sipm_size" -> [chip_dma EXCEPT !.size = v]
      [] pc[t] = "sipm_src" -> [chip_dma EXCEPT !.src = v]
      [] pc[t] = "sipm_dst" -> [chip_dma EXCEPT !.dst = v]
      [] pc[t] = "sipm_ctrl" ->
            IF v.lo = AP130X_DMA_CTRL_DST_SIP + AP130X_DMA_CTRL_MODE_COPY
            THEN ChipCopyToSensor
            ELSE ChipCopyFromSensor

\* ap130x_sipm_read shifting as ap130x_sipm_write does, by 16 for every size
SipmReadResults_ShiftBy16(size, dst) == {dst.hi}

\* line 744: *val >>= 32 - size * 8; a shift of a u32 by 32 is undefined
\* and leaves the value or clears it
SipmReadResults(size, dst) ==
    IF size = 1 THEN {dst.hi \div 256}
    ELSE IF size = 2 THEN {dst.hi}
    ELSE {0, (dst.hi % 32768) * 65536 + dst.lo}

\* ap130x_log_status, lines 2035-2046: the sensor loop from slot i on
LogSensor(t, i) ==
    IF NextSensor(i) < NUM_SENSORS
    THEN /\ lane' = [p |-> NextSensor(i), s |-> 0, n |-> 0, samples |-> 0]
         /\ Goto(t, "lane_read", OK)
    ELSE /\ lane' = NoLane
         /\ Goto(t, "idle", OK)

\* ap130x_log_lane_state, lines 1877-1910: after the read of lane n in
\* iteration s; good: the read succeeded and returned a valid lane state
LaneRead(t, good) ==
    LET got == lane.samples + (IF good THEN 1 ELSE 0) IN
    IF good /\ lane.n + 1 < NUM_LANES
    THEN lane' = [lane EXCEPT !.n = @ + 1] /\ Goto(t, "lane_read", OK)
    ELSE IF lane.s + 1 < LaneSamples
    THEN /\ lane' = [lane EXCEPT !.s = @ + 1, !.n = 0, !.samples = got]
         /\ Goto(t, "lane_read", OK)
    ELSE IF got = 0
    THEN LogSensor(t, lane.p + 1)
    ELSE /\ lane' = [lane EXCEPT !.n = 0, !.samples = got]
         /\ Goto(t, "lane_reset", OK)

\* ap130x_log_lane_state, lines 1950-1954: after the reset of lane n
LaneReset(t) ==
    IF lane.n + 1 < NUM_LANES
    THEN lane' = [lane EXCEPT !.n = @ + 1] /\ Goto(t, "lane_reset", OK)
    ELSE LogSensor(t, lane.p + 1)

\* values the DMA control register may read back: idle, idle with the 32-bit
\* flag, a copy from the sensor in progress, an unpack in progress
DmaCtrlValues == {0, 8, 50, 4}
\* line 679: (ctrl & AP130X_DMA_CTRL_MODE_MASK) == AP130X_DMA_CTRL_MODE_IDLE
DmaIdle(ctrl) == ctrl % (AP130X_DMA_CTRL_MODE_MASK + 1) = AP130X_DMA_CTRL_MODE_IDLE

\* the tasks that open the debugfs files sipm_addr and sipm_data
DebugfsCallers == {"dbg1", "dbg2"}

\* What a poll of the control register by caller t may read: for the
\* debugfs tasks the engine is busy for at most MaxBusyPolls polls of a wait.
DmaCtrlRead(t) ==
    IF t \in DebugfsCallers /\ Len(sipm.seen) >= MaxBusyPolls
    THEN {c \in DmaCtrlValues : DmaIdle(c)}
    ELSE DmaCtrlValues

\* the loop of the wait that stops one poll short
ap130x_dma_wait_idle_OneShort(i, e, ctrl) ==
    IF e # OK THEN [done |-> TRUE, ret |-> e, i |-> i]
    ELSE IF DmaIdle(ctrl) THEN [done |-> TRUE, ret |-> OK, i |-> i]
    ELSE IF i - 1 > 1 THEN [done |-> FALSE, ret |-> OK, i |-> i - 1]
    ELSE [done |-> TRUE, ret |-> "ETIMEDOUT", i |-> 0]

\* ap130x_dma_wait_idle, lines 674-691: one pass of the loop with counter i,
\* the read of AP130X_DMA_CTRL having returned e and the value ctrl
ap130x_dma_wait_idle(i, e, ctrl) ==
    IF e # OK THEN [done |-> TRUE, ret |-> e, i |-> i]
    ELSE IF DmaIdle(ctrl) THEN [done |-> TRUE, ret |-> OK, i |-> i]
    ELSE IF i - 1 > 0 THEN [done |-> FALSE, ret |-> OK, i |-> i - 1]
    ELSE [done |-> TRUE, ret |-> "ETIMEDOUT", i |-> 0]

\* the result of the wait not tested by the caller
AfterWait_IgnoreResult(r) ==
    IF sipm.wait = 1 THEN "sipm_size"
    ELSE IF sipm.op = "read" THEN "sipm_result" ELSE "sipm_done"

\* where ap130x_sipm_read / ap130x_sipm_write go on after a wait returned r
AfterWait(r) ==
    IF r # OK THEN "sipm_done"
    ELSE IF sipm.wait = 1 THEN "sipm_size"
    ELSE IF sipm.op = "read" THEN "sipm_result" ELSE "sipm_done"

Continue(t, e) ==
    LET r == IF e # OK THEN e ELSE ret[t] IN
    CASE pc[t] = "detect_version" ->
            /\ version' = IF e = OK THEN chip_version ELSE version
            /\ IF e = OK THEN Goto(t, "detect_revision", ret[t])
                         ELSE Goto(t, "error_power", e)
            /\ UNCHANGED <<streaming, lock, retries, win_pos, fw_len, lane, xfer, sipm, calls>>
      [] pc[t] = "detect_revision" ->
            /\ IF DetectChipReturn(e, version) # OK
               THEN Goto(t, "error_power", DetectChipReturn(e, version))
               ELSE Goto(t, "lf_crc_clear", ret[t])
            /\ win_pos' = IF DetectChipReturn(e, version) = OK THEN 0 ELSE win_pos
            /\ UNCHANGED <<streaming, lock, retries, version, fw_len, lane, xfer, sipm, calls>>
      [] pc[t] = "lf_crc_clear" ->
            /\ IF e = OK THEN Goto(t, "lf_pll", ret[t]) ELSE LoadReturn(t, e)
            /\ fw_len' = IF e = OK THEN fw_file.pll_init_size ELSE fw_len
            /\ UNCHANGED <<streaming, lock, retries, version, win_pos, lane, xfer, sipm, calls>>
      [] pc[t] = "lf_stage2" ->
            /\ IF e = OK THEN Goto(t, "lf_rest", ret[t]) ELSE LoadReturn(t, e)
            /\ fw_len' = IF e = OK THEN FwSize - fw_file.pll_init_size ELSE fw_len
            /\ UNCHANGED <<streaming, lock, retries, version, win_pos, lane, xfer, sipm, calls>>
      [] pc[t] = "lf_stage_done" ->
            /\ IF e = OK THEN Goto(t, "stall_req", OK) ELSE LoadReturn(t, e)
            /\ UNCHANGED <<streaming, lock, retries, version, win_pos, fw_len, lane, xfer, sipm, calls>>
      [] pc[t] = "stall_req" ->
            /\ Goto(t, "stall_en", r)
            /\ UNCHANGED <<streaming, lock, retries, version, win_pos, fw_len, lane, xfer, sipm, calls>>
      [] pc[t] = "stall_en" ->
            /\ IF r # OK THEN StallReturn(t, r)
                         ELSE Goto(t, "stall_sleep", OK) /\ UNCHANGED <<streaming, lock>>
            /\ UNCHANGED <<retries, version, win_pos, fw_len, lane, xfer, sipm, calls>>
      [] pc[t] = "stall_inte" ->
            /\ StallReturn(t, e)
            /\ UNCHANGED <<retries, version, win_pos, fw_len, lane, xfer, sipm, calls>>
      [] pc[t] = "unstall" ->
            /\ streaming' = IF e = OK THEN TRUE ELSE streaming
            /\ lock' = "free"
            /\ Goto(t, "idle", e)
            /\ UNCHANGED <<retries, version, win_pos, fw_len, lane, xfer, sipm, calls>>
      [] pc[t] = "cfg_hinf" ->
            /\ Goto(t, "cfg_width", r)
            /\ UNCHANGED <<streaming, lock, retries, version, win_pos, fw_len, lane, xfer, sipm, calls>>
      [] pc[t] = "cfg_width" ->
            /\ Goto(t, "cfg_height", r)
            /\ UNCHANGED <<streaming, lock, retries, version, win_pos, fw_len, lane, xfer, sipm, calls>>
      [] pc[t] = "cfg_height" ->
            /\ Goto(t, "cfg_fmt", r)
            /\ UNCHANGED <<streaming, lock, retries, version, win_pos, fw_len, lane, xfer, sipm, calls>>
      [] pc[t] = "cfg_fmt" ->
            /\ IF r # OK THEN Goto(t, "idle", r) /\ lock' = "free"
                         ELSE Goto(t, "cfg_ctrls", OK) /\ UNCHANGED lock
            /\ UNCHANGED <<streaming, retries, version, win_pos, fw_len, lane, xfer, sipm, calls>>
      [] pc[t] = "cfg_ctrls" ->
            /\ Goto(t, "unstall", OK)
            /\ UNCHANGED <<streaming, lock, retries, version, win_pos, fw_len, lane, xfer, sipm, calls>>
      [] pc[t] = "dma_poll" ->
            /\ \E ctrl \in DmaCtrlRead(t) :
                LET w == ap130x_dma_wait_idle(sipm.i, e, ctrl)
                    o == IF e # OK THEN e ELSE IF DmaIdle(ctrl) THEN "idle" ELSE "busy"
                IN  IF w.done
                    THEN /\ sipm' = [sipm EXCEPT !.i = w.i, !.seen = <<>>,
                                        !.waits = Append(@, [seen |-> Append(sipm.seen, o),
                                                             ret |-> w.ret])]
                         /\ Goto(t, AfterWait(w.ret), w.ret)
                    ELSE /\ sipm' = [sipm EXCEPT !.i = w.i, !.seen = Append(@, o)]
                         /\ Goto(t, "dma_poll", OK)
            /\ UNCHANGED <<streaming, lock, retries, version, win_pos, fw_len, lane, xfer, calls>>
      [] pc[t] = "sipm_size" ->
            /\ Goto(t, "sipm_src", r)
            /\ UNCHANGED <<streaming, lock, retries, version, win_pos, fw_len, lane, xfer, sipm, calls>>
      [] pc[t] = "sipm_src" ->
            \* line 775: ap130x_sipm_write alone tests ret here
            /\ Goto(t, IF sipm.op = "write" /\ r # OK THEN "sipm_done" ELSE "sipm_dst", r)
            /\ UNCHANGED <<streaming, lock, retries, version, win_pos, fw_len, lane, xfer, sipm, calls>>
      [] pc[t] = "sipm_dst" ->
            /\ Goto(t, "sipm_ctrl", r)
            /\ UNCHANGED <<streaming, lock, retries, version, win_pos, fw_len, lane, xfer, sipm, calls>>
      [] pc[t] = "sipm_ctrl" ->
            /\ IF r # OK
               THEN Goto(t, "sipm_done", r) /\ UNCHANGED sipm
               ELSE /\ Goto(t, "dma_poll", OK)
                    /\ sipm' = [sipm EXCEPT !.i = DMA_WAIT_POLLS, !.wait = 2, !.seen = <<>>]
            /\ UNCHANGED <<streaming, lock, retries, version, win_pos, fw_len, lane, xfer, calls>>
      [] pc[t] = "sipm_result" ->
            /\ Goto(t, "sipm_done", e)
            /\ IF e = OK
               THEN \E x \in SipmReadResults(AP130X_REG_SIZE(sipm.reg), chip_dma.dst) :
                        sipm' = [sipm EXCEPT !.val = x]
               ELSE UNCHANGED sipm
            /\ UNCHANGED <<streaming, lock, retries, version, win_pos, fw_len, lane, xfer, calls>>
      [] pc[t] \in XferLabels ->
            /\ xfer' = [xfer EXCEPT !.idx = @ + 1, !.rets = Append(@, e)]
            /\ Goto(t, IF xfer.idx < Len(xfer.chain) THEN xfer.chain[xfer.idx + 1].label
                                                     ELSE "xfer_done",
                    IF pc[t] = "xfer_write_err" /\ e # OK THEN e ELSE ret[t])
            /\ UNCHANGED <<streaming, lock, retries, version, win_pos, fw_len, lane, sipm, calls>>
      [] pc[t] = "ctrl_write" ->
            /\ Goto(t, "idle", e)
            /\ lock' = "free"
            /\ UNCHANGED <<streaming, retries, version, win_pos, fw_len, lane, xfer, sipm, calls>>
      [] pc[t] = "log_regs" ->
            /\ IF e = OK THEN Goto(t, "log_frame_cnt", OK) ELSE Goto(t, "idle", e)
            /\ UNCHANGED <<streaming, lock, retries, version, win_pos, fw_len, lane, xfer, sipm, calls>>
      [] pc[t] = "log_frame_cnt" ->
            /\ IF e = OK THEN Goto(t, "log_fv_cnt", OK) ELSE Goto(t, "idle", e)
            /\ UNCHANGED <<streaming, lock, retries, version, win_pos, fw_len, lane, xfer, sipm, calls>>
      [] pc[t] = "log_fv_cnt" ->
            /\ IF e = OK THEN LogSensor(t, 0)
                         ELSE Goto(t, "idle", e) /\ UNCHANGED lane
            /\ UNCHANGED <<streaming, lock, retries, version, win_pos, fw_len, xfer, sipm, calls>>
      [] pc[t] = "lane_read" ->
            /\ \E valid \in BOOLEAN : LaneRead(t, e = OK /\ valid)
            /\ UNCHANGED <<streaming, lock, retries, version, win_pos, fw_len, xfer, sipm, calls>>
      [] pc[t] = "lane_reset" ->
            /\ LaneReset(t)
            /\ UNCHANGED <<streaming, lock, retries, version, win_pos, fw_len, xfer, sipm, calls>>

(***************************************************************************)
(* Register Transport: ap130x_write (lines 579-609) and ap130x_read        *)
(* (lines 640-660), one step per shared-state access or bus transfer.      *)
(***************************************************************************)

\* line 585: the sticky slot already holds an error; no transfer
ap130x_write_latched(t) ==
    /\ InAccess(t) /\ ph[t] = "call" /\ Latched(t)
    /\ Continue(t, ret[t])
    /\ UNCHANGED <<env_vars, hw_vars, reg_page, fw, debugfs, obs_vars>>

\* the comparison with the cache made for every descriptor, page 0 included
ap130x_page_check_AnyPage(t) ==
    /\ InAccess(t) /\ ph[t] = "call" /\ ~Latched(t)
    /\ ph' = [ph EXCEPT ![t] =
                IF reg_page # AP130X_REG_PAGE(RegOf(t)) THEN "select" ELSE "target"]
    /\ UNCHANGED <<env_vars, hw_vars, dev_vars, obs_vars>>
    /\ UNCHANGED <<pc, ret, retries, version, win_pos, fw_len, lane, xfer, sipm, calls>>

\* any page held by the cache taken for the descriptor's page
ap130x_page_check_AnyCached(t) ==
    /\ InAccess(t) /\ ph[t] = "call" /\ ~Latched(t)
    /\ AP130X_REG_PAGE(RegOf(t)) # 0
    /\ ph' = [ph EXCEPT ![t] = IF reg_page = 0 THEN "select" ELSE "target"]
    /\ UNCHANGED <<env_vars, hw_vars, dev_vars, obs_vars>>
    /\ UNCHANGED <<pc, ret, retries, version, win_pos, fw_len, lane, xfer, sipm, calls>>

\* the width tag validated before the page is looked at: a descriptor of
\* a width other than 2 or 4 goes to the target step without a page select
ap130x_page_check_WidthFirst(t) ==
    /\ InAccess(t) /\ ph[t] = "call" /\ ~Latched(t)
    /\ AP130X_REG_PAGE(RegOf(t)) # 0
    /\ ph' = [ph EXCEPT ![t] =
                IF AP130X_REG_SIZE(RegOf(t)) \in {2, 4}
                   /\ reg_page # AP130X_REG_PAGE(RegOf(t)) THEN "select" ELSE "target"]
    /\ UNCHANGED <<env_vars, hw_vars, dev_vars, obs_vars>>
    /\ UNCHANGED <<pc, ret, retries, version, win_pos, fw_len, lane, xfer, sipm, calls>>

\* lines 588-589 / 645-646: a paged descriptor is compared with the cache
ap130x_page_check(t) ==
    /\ InAccess(t) /\ ph[t] = "call" /\ ~Latched(t)
    /\ AP130X_REG_PAGE(RegOf(t)) # 0
    /\ ph' = [ph EXCEPT ![t] =
                IF reg_page # AP130X_REG_PAGE(RegOf(t)) THEN "select" ELSE "target"]
    /\ UNCHANGED <<env_vars, hw_vars, dev_vars, obs_vars>>
    /\ UNCHANGED <<pc, ret, retries, version, win_pos, fw_len, lane, xfer, sipm, calls>>

\* the result of the page-select write ignored: the cache is updated and the
\* target transferred whether or not the write went through
ap130x_page_select_IgnoreResult(t) ==
    /\ InAccess(t) /\ ph[t] = "select"
    /\ \E e \in TransferResults(AP130X_ADVANCED_BASE) :
        /\ io_fail' = NoteFail(t, e)
        /\ fault_seen' = (fault_seen \/ e # OK)
        /\ bus' = LogBus(t, Transfer(t, "select", AP130X_ADVANCED_BASE,
                                     AP130X_REG_PAGE(RegOf(t)), e))
        /\ chip_page' = IF e = OK THEN AP130X_REG_PAGE(RegOf(t)) ELSE chip_page
        /\ sel_since_on' = (sel_since_on \/ e = OK)
        /\ ph' = [ph EXCEPT ![t] = "update"]
        /\ UNCHANGED <<pc, ret, retries, version, win_pos, fw_len, lane, xfer, sipm, calls>>
        /\ UNCHANGED <<streaming, lock>>
    /\ UNCHANGED <<env_vars, isp_sup, clk_en, reset_gpio, sen_sup, chip_stage,
                   chip_sys_start, chip_crc_ok, chip_dma, reg_page, fw, debugfs>>
    /\ UNCHANGED <<power_ons, fw_written, fw_releases, unwind, sen_ops, bad_access>>

\* lines 590-593 / 647-650: __ap130x_write(AP130X_ADVANCED_BASE, page)
ap130x_page_select(t) ==
    /\ InAccess(t) /\ ph[t] = "select"
    /\ \E e \in TransferResults(AP130X_ADVANCED_BASE) :
        /\ io_fail' = NoteFail(t, e)
        /\ fault_seen' = (fault_seen \/ e # OK)
        /\ bus' = LogBus(t, Transfer(t, "select", AP130X_ADVANCED_BASE,
                                     AP130X_REG_PAGE(RegOf(t)), e))
        /\ IF e = OK
           THEN /\ chip_page' = AP130X_REG_PAGE(RegOf(t))
                /\ sel_since_on' = TRUE
                /\ ph' = [ph EXCEPT ![t] = "update"]
                /\ UNCHANGED <<pc, ret, retries, version, win_pos, fw_len, lane, xfer, sipm, calls>>
                /\ UNCHANGED <<streaming, lock>>
           ELSE /\ Continue(t, e)
                /\ UNCHANGED <<chip_page, sel_since_on>>
    /\ UNCHANGED <<env_vars, isp_sup, clk_en, reset_gpio, sen_sup, chip_stage,
                   chip_sys_start, chip_crc_ok, chip_dma, reg_page, fw, debugfs>>
    /\ UNCHANGED <<power_ons, fw_written, fw_releases, unwind, sen_ops, bad_access>>

\* the cache left as it was after a successful page-select write
ap130x_page_store_NoUpdate(t) ==
    /\ InAccess(t) /\ ph[t] = "update"
    /\ ph' = [ph EXCEPT ![t] = "target"]
    /\ UNCHANGED <<env_vars, hw_vars, dev_vars, obs_vars>>
    /\ UNCHANGED <<pc, ret, retries, version, win_pos, fw_len, lane, xfer, sipm, calls>>

\* line 595 / 652: ap130x->reg_page = page
ap130x_page_store(t) ==
    /\ InAccess(t) /\ ph[t] = "update"
    /\ reg_page' = AP130X_REG_PAGE(RegOf(t))
    /\ ph' = [ph EXCEPT ![t] = "target"]
    /\ UNCHANGED <<env_vars, hw_vars, streaming, fw, debugfs, lock, obs_vars>>
    /\ UNCHANGED <<pc, ret, retries, version, win_pos, fw_len, lane, xfer, sipm, calls>>

\* lines 598-602 / 655-659: the transfer of the target register.  A paged
\* descriptor is sent to the advanced window, where the chip resolves it
\* against the page it has selected.
ap130x_target(t) ==
    /\ InAccess(t) /\ ~Latched(t)
    /\ ph[t] = IF AP130X_REG_PAGE(RegOf(t)) = 0 THEN "call" ELSE "target"
    /\ \E e \in TransferResults(RegOf(t)) :
        /\ io_fail' = NoteFail(t, e)
        /\ fault_seen' = (fault_seen \/ e # OK)
        /\ bus' = LogBus(t, Transfer(t, IF pc[t] \in ReadLabels THEN "read" ELSE "write",
                                     AdvancedReg(RegOf(t)), ValOf(t), e))
        /\ bad_access' = (bad_access \/ (e = OK /\ AP130X_REG_PAGE(RegOf(t)) # 0
                                         /\ chip_page # AP130X_REG_PAGE(RegOf(t))))
        /\ chip_stage' = IF e = OK /\ RegOf(t) = AP130X_BOOTDATA_STAGE
                         THEN ValOf(t) ELSE chip_stage
        /\ chip_sys_start' = IF e = OK /\ RegOf(t) = AP130X_SYS_START
                             THEN ValOf(t) ELSE chip_sys_start
        /\ chip_dma' = IF e = OK /\ pc[t] \in SipmWrites THEN ChipDmaWrite(t) ELSE chip_dma
        /\ Continue(t, e)
    /\ UNCHANGED <<env_vars, isp_sup, clk_en, reset_gpio, sen_sup, chip_page,
                   chip_crc_ok, reg_page, fw, debugfs>>
    /\ UNCHANGED <<power_ons, fw_written, fw_releases, unwind, sen_ops, sel_since_on>>

(***************************************************************************)
(* Power handling.                                                         *)
(***************************************************************************)

\* the chip's registers after a reset or a power cut
ChipReset ==
    /\ chip_page' = 0
    /\ chip_stage' = 0
    /\ chip_sys_start' = 0
    /\ chip_crc_ok' = FALSE
    /\ chip_dma' = [NoDma EXCEPT !.sensor = chip_dma.sensor]

\* ap130x_power_off, lines 1055-1077: assert RESET, clock off, regulators off
ap130x_power_off ==
    /\ reset_gpio' = 1
    /\ clk_en' = clk_en - 1
    /\ isp_sup' = [i \in IspSupplyIds |-> isp_sup[i] - 1]
    /\ ChipReset

\* ap130x_power_off_sensors, lines 989-1001
ap130x_power_off_sensors ==
    sen_sup' = IF ~topo.has_supplies THEN sen_sup
               ELSE [x \in Sensors \X SensorSupplyIds |->
                        IF x[2] < topo.num[x[1]] THEN sen_sup[x] - 1 ELSE sen_sup[x]]

\* ap130x_request_firmware with only the check of the file size
FirmwareInvalid_SizeOnly == fw_file.size < FW_HEADER_SIZE

\* ap130x_request_firmware, lines 2355-2373: the two sanity checks
FirmwareInvalid ==
    fw_file.size < FW_HEADER_SIZE \/ fw_file.pll_init_size > FwSize

\* ap130x_request_firmware, lines 2349-2375
RequestFirmware ==
    /\ pc[P] = "request_firmware"
    /\ IF ~fw_file.present
       THEN Goto(P, "hw_failed", "ENOENT") /\ UNCHANGED fw
       ELSE /\ fw' = "held"
            /\ IF FirmwareInvalid
               THEN Goto(P, "hw_failed", "EINVAL")
               ELSE Goto(P, "power_on_sensors", OK)
    /\ UNCHANGED <<env_vars, hw_vars, reg_page, streaming, lock, debugfs, obs_vars>>
    /\ UNCHANGED <<retries, version, win_pos, fw_len, lane, xfer, sipm, calls>>

\* the sensor supplies ap130x_power_on_sensors enabled before supply fj of
\* sensor fi failed (fi = NUM_SENSORS: none failed)
EnabledBefore(fi, fj) ==
    { x \in Sensors \X SensorSupplyIds :
        /\ x[2] < topo.num[x[1]]
        /\ x[1] < fi \/ (x[1] = fi /\ x[2] < fj) }

\* ... and those its error path disables: supplies fj-1 .. 0 of sensor fi,
\* then every supply of sensors fi-1 .. 0
DisabledAfter(fi, fj) ==
    { x \in Sensors \X SensorSupplyIds :
        \/ x[1] = fi /\ x[2] < fj
        \/ x[1] < fi /\ x[2] < topo.num[x[1]] }

\* lines 950-974: the supplies of the sensors below slot i, in loop order
RECURSIVE SlotsBelow(_)
SlotsBelow(i) ==
    IF i = 0 THEN <<>>
    ELSE SlotsBelow(i - 1) \o [j \in 1 .. topo.num[i - 1] |-> <<i - 1, j - 1>>]

RegulatorOp(o, i, j) == [op |-> o, sensor |-> i, supply |-> j]

\* lines 950-974: the regulator_enable calls up to the one of supply fj of
\* sensor fi, which fails (fi = NUM_SENSORS: every call succeeds)
SensorEnableOps(fi, fj) ==
    LET before == IF fi = NUM_SENSORS THEN SlotsBelow(NUM_SENSORS)
                  ELSE SlotsBelow(fi) \o [j \in 1 .. fj |-> <<fi, j - 1>>]
    IN  [k \in 1 .. Len(before) |-> RegulatorOp("enable", before[k][1], before[k][2])]
        \o (IF fi = NUM_SENSORS THEN <<>> ELSE <<RegulatorOp("enable_failed", fi, fj)>>)

\* the error path without the loop over the earlier sensors
SensorUnwindOps_ThisSensorOnly(fi, fj) ==
    [k \in 1 .. fj |-> RegulatorOp("disable", fi, fj - k)]

\* lines 977-984, label error: regulator_disable of supplies fj-1 .. 0 of
\* sensor fi, then regulator_bulk_disable of sensors fi-1 .. 0
SensorUnwindOps(fi, fj) ==
    [k \in 1 .. fj |-> RegulatorOp("disable", fi, fj - k)]
    \o [k \in 1 .. fi |-> RegulatorOp("bulk_disable", fi - k, topo.num[fi - k])]

\* the change of the enable count of supply x made by the calls ops
SupplyDelta(ops, x) ==
    Cardinality({k \in 1 .. Len(ops) :
                    ops[k].op = "enable" /\ <<ops[k].sensor, ops[k].supply>> = x})
    - Cardinality({k \in 1 .. Len(ops) :
                    \/ ops[k].op = "disable" /\ <<ops[k].sensor, ops[k].supply>> = x
                    \/ ops[k].op = "bulk_disable" /\ ops[k].sensor = x[1]
                       /\ x[2] < ops[k].supply})

\* ap130x_power_on_sensors, lines 941-987
PowerOnSensors ==
    /\ pc[P] = "power_on_sensors"
    /\ \E fi \in 0 .. NUM_SENSORS, fj \in SensorSupplyIds :
        /\ fi = NUM_SENSORS => fj = 0
        /\ fi < NUM_SENSORS => (topo.has_supplies /\ fj < topo.num[fi])
        /\ LET ops == IF ~topo.has_supplies THEN <<>>
                      ELSE IF fi = NUM_SENSORS THEN SensorEnableOps(fi, fj)
                      ELSE SensorEnableOps(fi, fj) \o SensorUnwindOps(fi, fj)
           IN  /\ sen_ops' = ops
               /\ sen_sup' = [x \in Sensors \X SensorSupplyIds |->
                                sen_sup[x] + SupplyDelta(ops, x)]
        /\ IF fi = NUM_SENSORS
           THEN /\ Goto(P, "power_on", OK)
                /\ UNCHANGED fault_seen
           ELSE /\ \E e \in RegulatorErrors : Goto(P, "error_firmware", e)
                /\ fault_seen' = TRUE
    /\ retries' = 0
    /\ UNCHANGED <<env_vars, isp_sup, clk_en, reset_gpio, chip_page, chip_stage,
                   chip_sys_start, chip_crc_ok, chip_dma, dev_vars>>
    /\ UNCHANGED <<version, win_pos, fw_len, lane, xfer, sipm, calls>>
    /\ UNCHANGED <<power_ons, fw_written, fw_releases, unwind, io_fail, sel_since_on, bad_access, bus>>

\* ap130x_power_on, lines 1003-1053, called at the head of the retry loop
\* of ap130x_hw_init (line 2542).  k is the number of regulators enabled
\* before the failure: k < AP130X_NUM_SUPPLIES, regulator k failed; clk_ok
\* tells whether clk_prepare_enable succeeded.
PowerOn ==
    /\ pc[P] = "power_on"
    /\ \E k \in 0 .. AP130X_NUM_SUPPLIES, clk_ok \in BOOLEAN :
        /\ k < AP130X_NUM_SUPPLIES => ~clk_ok
        /\ isp_sup' = [i \in IspSupplyIds |-> IF i < k THEN isp_sup[i] + 1 ELSE isp_sup[i]]
        /\ IF k = AP130X_NUM_SUPPLIES /\ clk_ok
           THEN /\ clk_en' = clk_en + 1
                /\ reset_gpio' = 0
                /\ ChipReset
                /\ power_ons' = power_ons + 1
                /\ fw_written' = 0
                /\ bus' = <<>>
                /\ sel_since_on' = FALSE
                /\ version' = -1
                /\ Goto(P, "detect_version", ret[P])
                /\ UNCHANGED fault_seen
           ELSE /\ \E e \in RegulatorErrors : Goto(P, "error_power_sensors", e)
                /\ fault_seen' = TRUE
                /\ UNCHANGED <<clk_en, reset_gpio, chip_page, chip_stage, chip_sys_start,
                               chip_crc_ok, chip_dma, power_ons, fw_written, sel_since_on, version, bus>>
    /\ UNCHANGED <<env_vars, sen_sup, dev_vars, retries, win_pos, fw_len, lane, xfer, sipm, calls>>
    /\ UNCHANGED <<fw_releases, unwind, sen_ops, io_fail, bad_access>>

(***************************************************************************)
(* Firmware load.                                                          *)
(***************************************************************************)
Min(a, b) == IF a < b THEN a ELSE b

\* ap130x_write_fw_window, lines 2401-2402: address and size of the next run
WriteAddr(pos) == pos + AP130X_FW_WINDOW_OFFSET
\* a run of the whole segment, whatever is left of the window
WriteSize_WholeSegment(len, pos) == len
WriteSize(len, pos) == Min(len, window - pos)
\* the cursor wrapped only once it is past the end of the window
NextWinPos_WrapPastEnd(pos, n) == IF pos + n > window THEN 0 ELSE pos + n
\* lines 2412-2414: the cursor after a run of n bytes
NextWinPos(pos, n) == IF pos + n >= window THEN 0 ELSE pos + n

\* lines 2401-2405: the regmap_raw_write of one pass of the loop, returning
\* e.  addr is write_addr, val is write_size and acc is buf - fw_data, the
\* place in the payload of the first byte of the run.
FwRun(e) ==
    [kind |-> "fw", tag |-> 0, addr |-> WriteAddr(win_pos),
     regmap |-> "regmap16", val |-> WriteSize(fw_len, win_pos), res |-> e,
     acc |-> (IF pc[P] = "lf_pll" THEN fw_file.pll_init_size ELSE FwSize) - fw_len]

\* ap130x_write_fw_window, lines 2389-2418, one run of the loop per step,
\* for the PLL-init segment (line 2441) and the remainder (line 2453)
WriteFwWindow ==
    /\ pc[P] \in {"lf_pll", "lf_rest"}
    /\ IF fw_len > 0
       THEN \E e \in {OK} \cup BusErrors :
              /\ io_fail' = NoteFail(P, e)
              /\ fault_seen' = (fault_seen \/ e # OK)
              /\ bus' = Append(bus, FwRun(e))
              /\ IF e = OK
                 THEN /\ fw_len' = fw_len - WriteSize(fw_len, win_pos)
                      /\ win_pos' = NextWinPos(win_pos, WriteSize(fw_len, win_pos))
                      /\ fw_written' = fw_written + WriteSize(fw_len, win_pos)
                      /\ UNCHANGED <<pc, ph, ret>>
                 ELSE /\ LoadReturn(P, e)
                      /\ UNCHANGED <<fw_len, win_pos, fw_written>>
       ELSE /\ Goto(P, IF pc[P] = "lf_pll" THEN "lf_stage2" ELSE "lf_wait", ret[P])
            /\ UNCHANGED <<fw_len, win_pos, fw_written, io_fail, fault_seen, bus>>
    /\ UNCHANGED <<env_vars, hw_vars, dev_vars, retries, version, lane, xfer, sipm, calls>>
    /\ UNCHANGED <<power_ons, fw_releases, unwind, sen_ops, sel_since_on, bad_access>>

\* line 2458: msleep(40) while the chip processes the bootdata and settles
\* its CRC accumulator; the CRC comparison of lines 2460-2472 is compiled out
LoadWait ==
    /\ pc[P] = "lf_wait"
    /\ chip_crc_ok' = (power_ons \notin crc_mismatch)
    /\ Goto(P, "lf_stage_done", ret[P])
    /\ UNCHANGED <<env_vars, isp_sup, clk_en, reset_gpio, sen_sup, chip_page, chip_stage,
                   chip_sys_start, chip_dma, dev_vars, retries, version, win_pos, fw_len, lane, xfer, sipm, calls, obs_vars>>

\* ap130x_stall, line 1160: msleep(200)
StallSleep(t) ==
    /\ pc[t] = "stall_sleep"
    /\ Goto(t, "stall_inte", ret[t])
    /\ bus' = IF Logged(t)
              THEN Append(bus, [kind |-> "sleep", tag |-> 0, addr |-> 0, regmap |-> "none",
                                val |-> 200, res |-> OK, acc |-> calls.n])
              ELSE bus
    /\ UNCHANGED <<env_vars, hw_vars, dev_vars, retries, version, win_pos, fw_len, lane, xfer, sipm, calls>>
    /\ UNCHANGED <<power_ons, fw_written, fw_releases, unwind, io_fail, fault_seen, sel_since_on,
                   bad_access, sen_ops>>

(***************************************************************************)
(* ap130x_hw_init: retry loop and error unwind, lines 2554-2577.           *)
(***************************************************************************)

\* the unwind with release_firmware placed before ap130x_power_off_sensors
UnwindNext_ReleaseFirst(l) ==
    CASE l = "error_power" -> "error_firmware"
      [] l = "error_firmware" -> "error_power_sensors"
      [] l = "error_power_sensors" -> "hw_failed"

\* lines 2569-2576: the labels of the unwind fall through in this order
UnwindNext(l) ==
    CASE l = "error_power" -> "error_power_sensors"
      [] l = "error_power_sensors" -> "error_firmware"
      [] l = "error_firmware" -> "hw_failed"

\* every supply of every attached sensor is enabled
SensorsPowered ==
    \A x \in Sensors \X SensorSupplyIds : x[2] < topo.num[x[1]] => sen_sup[x] >= 1

\* the retry loop without ++retries (line 2541)
RetryPowerOff_NoCount ==
    /\ pc[P] = "retry_power_off"
    /\ ap130x_power_off
    /\ Goto(P, "power_on", ret[P])
    /\ UNCHANGED <<env_vars, sen_sup, dev_vars, retries, version, win_pos, fw_len, lane, xfer, sipm, calls, obs_vars>>

\* the retry loop leaving through error_power when the retries are used
\* up, so that ap130x_power_off runs twice
RetryPowerOff_ThenErrorPower ==
    /\ pc[P] = "retry_power_off"
    /\ ap130x_power_off
    /\ retries' = retries + 1
    /\ IF retries + 1 < MAX_FW_LOAD_RETRIES
       THEN Goto(P, "power_on", ret[P])
       ELSE Goto(P, "error_power", "ETIMEDOUT")
    /\ UNCHANGED <<env_vars, sen_sup, dev_vars, version, win_pos, fw_len, lane, xfer, sipm, calls, obs_vars>>

\* lines 2557-2565: power off after -EAGAIN, ++retries, loop or give up
RetryPowerOff ==
    /\ pc[P] = "retry_power_off"
    /\ ap130x_power_off
    /\ retries' = retries + 1
    /\ IF retries + 1 < MAX_FW_LOAD_RETRIES
       THEN Goto(P, "power_on", ret[P])
       ELSE Goto(P, "error_power_sensors", "ETIMEDOUT")
    /\ UNCHANGED <<env_vars, sen_sup, dev_vars, version, win_pos, fw_len, lane, xfer, sipm, calls, obs_vars>>

\* error_power, lines 2569-2570
ErrorPower ==
    /\ pc[P] = "error_power"
    /\ ap130x_power_off
    /\ unwind' = Append(unwind, [step |-> "power_off", live |-> IspPowered])
    /\ Goto(P, UnwindNext("error_power"), ret[P])
    /\ UNCHANGED <<env_vars, sen_sup, dev_vars, retries, version, win_pos, fw_len, lane, xfer, sipm, calls>>
    /\ UNCHANGED <<power_ons, fw_written, fw_releases, io_fail, fault_seen, sel_since_on, bad_access, bus>>
    /\ UNCHANGED sen_ops

\* error_power_sensors, lines 2571-2572
ErrorPowerSensors ==
    /\ pc[P] = "error_power_sensors"
    /\ ap130x_power_off_sensors
    /\ unwind' = Append(unwind, [step |-> "power_off_sensors", live |-> SensorsPowered])
    /\ Goto(P, UnwindNext("error_power_sensors"), ret[P])
    /\ UNCHANGED <<env_vars, isp_sup, clk_en, reset_gpio, chip_page, chip_stage,
                   chip_sys_start, chip_crc_ok, chip_dma, dev_vars>>
    /\ UNCHANGED <<retries, version, win_pos, fw_len, lane, xfer, sipm, calls>>
    /\ UNCHANGED <<power_ons, fw_written, fw_releases, io_fail, fault_seen, sel_since_on, bad_access, bus>>
    /\ UNCHANGED sen_ops

\* error_firmware, lines 2573-2576: release_firmware(ap130x->fw); return ret
ErrorFirmware ==
    /\ pc[P] = "error_firmware"
    /\ fw' = "released"
    /\ fw_releases' = fw_releases + 1
    /\ unwind' = Append(unwind, [step |-> "release_firmware", live |-> (fw = "held")])
    /\ Goto(P, UnwindNext("error_firmware"), ret[P])
    /\ UNCHANGED <<env_vars, hw_vars, reg_page, streaming, lock, debugfs>>
    /\ UNCHANGED <<retries, version, win_pos, fw_len, lane, xfer, sipm, calls>>
    /\ UNCHANGED <<power_ons, fw_written, io_fail, fault_seen, sel_since_on, bad_access, bus>>
    /\ UNCHANGED sen_ops

(***************************************************************************)
(* Probe and remove.                                                       *)
(***************************************************************************)

\* ap130x_hw_cleanup, lines 2579-2583
ap130x_hw_cleanup ==
    /\ ap130x_power_off
    /\ ap130x_power_off_sensors

\* ap130x_probe after ap130x_hw_init returned 0, line 2838:
\* ap130x_debugfs_init (lines 910-929) creates the directory and its two
\* files, or leaves the device without them when debugfs_create_dir fails
DebugfsInit ==
    /\ pc[P] = "hw_ready"
    /\ \E ok \in BOOLEAN : debugfs' = [debugfs EXCEPT !.dir = ok]
    /\ Goto(P, "config_v4l2", OK)
    /\ UNCHANGED <<env_vars, hw_vars, reg_page, streaming, fw, lock, obs_vars>>
    /\ UNCHANGED <<retries, version, win_pos, fw_len, lane, xfer, sipm, calls>>

\* ap130x_probe, lines 2840-2851:
\* ap130x_config_v4l2 succeeds, or fails and the hardware is cleaned up
ProbeConfig ==
    /\ pc[P] = "config_v4l2"
    /\ \E ok \in BOOLEAN :
        IF ok
        THEN Goto(P, "registered", OK) /\ UNCHANGED hw_vars
        ELSE Goto(P, "probe_failed", "ENOMEM") /\ ap130x_hw_cleanup
    /\ UNCHANGED <<env_vars, dev_vars, retries, version, win_pos, fw_len, lane, xfer, sipm, calls, obs_vars>>

\* ap130x_remove, lines 2854-2871
Remove ==
    /\ pc[P] = "registered"
    /\ \A t \in Threads \ {P} : pc[t] = "idle"
    /\ ap130x_hw_cleanup
    /\ fw' = "released"
    /\ fw_releases' = fw_releases + 1
    /\ Goto(P, "removed", OK)
    /\ debugfs' = [debugfs EXCEPT !.dir = FALSE]
    /\ UNCHANGED <<env_vars, reg_page, streaming, lock, retries, version, win_pos, fw_len, lane, xfer, sipm, calls>>
    /\ UNCHANGED <<power_ons, fw_written, unwind, sen_ops, io_fail, fault_seen, sel_since_on, bad_access, bus>>

(***************************************************************************)
(* The boot specification: one probe of one device, then its removal.      *)
(***************************************************************************)
InitDevice ==
    /\ isp_sup = [i \in IspSupplyIds |-> 0]
    /\ clk_en = 0
    /\ reset_gpio = 1
    /\ sen_sup = [x \in Sensors \X SensorSupplyIds |-> 0]
    /\ chip_page = 0
    /\ chip_stage = 0
    /\ chip_sys_start = 0
    /\ chip_crc_ok = FALSE
    /\ chip_dma = NoDma
    /\ reg_page = 0
    /\ streaming = FALSE
    /\ fw = "none"
    /\ debugfs = NoDebugfs
    /\ lock = "free"
    /\ ph = [t \in Threads |-> "call"]
    /\ ret = [t \in Threads |-> OK]
    /\ retries = 0
    /\ version = -1
    /\ win_pos = 0
    /\ fw_len = 0
    /\ lane = NoLane
    /\ xfer = NoXfer
    /\ sipm = NoSipm
    /\ calls = NoCalls
    /\ power_ons = 0
    /\ fw_written = 0
    /\ fw_releases = 0
    /\ unwind = <<>>
    /\ io_fail = NoFail
    /\ fault_seen = FALSE
    /\ sel_since_on = FALSE
    /\ bad_access = FALSE
    /\ sen_ops = <<>>
    /\ bus = <<>>

Init ==
    /\ fw_file \in FwFiles
    /\ window = AP130X_FW_WINDOW_SIZE
    /\ topo \in Topologies
    /\ chip_version \in {AP130X_CHIP_ID, 0}
    /\ crc_mismatch \in {{}, {1, 2}, 1 .. MAX_FW_LOAD_RETRIES}
    /\ InitDevice
    /\ pc = [t \in Threads |-> IF t = P THEN "request_firmware" ELSE "idle"]

Next ==
    \/ RequestFirmware
    \/ PowerOnSensors
    \/ PowerOn
    \/ WriteFwWindow
    \/ LoadWait
    \/ StallSleep(P)
    \/ RetryPowerOff
    \/ ErrorPower
    \/ ErrorPowerSensors
    \/ ErrorFirmware
    \/ DebugfsInit
    \/ ProbeConfig
    \/ Remove
    \/ ap130x_write_latched(P)
    \/ ap130x_page_check(P)
    \/ ap130x_page_select(P)
    \/ ap130x_page_store(P)
    \/ ap130x_target(P)

Spec == Init /\ [][Next]_vars

(***************************************************************************)
(* The window specification: the boot of a device whose firmware window    *)
(* has a size from 1 to MaxWindow with a payload of up to MaxPayload       *)
(* bytes, any part of it the PLL segment, and the boot of the image of     *)
(* 10000 bytes through the window of AP130X_FW_WINDOW_SIZE bytes.          *)
(***************************************************************************)
WindowImage == FwFile(FW_HEADER_SIZE + 10000, 100, 10000)

InitWindow ==
    /\ \/ /\ \E len \in 0 .. MaxPayload, pll \in 0 .. MaxPayload :
                /\ pll <= len
                /\ fw_file = FwFile(FW_HEADER_SIZE + len, pll, len)
          /\ window \in 1 .. MaxWindow
       \/ /\ fw_file = WindowImage
          /\ window = AP130X_FW_WINDOW_SIZE
    /\ topo \in {tp \in Topologies : ~tp.has_supplies}
    /\ chip_version = AP130X_CHIP_ID
    /\ crc_mismatch = {}
    /\ InitDevice
    /\ pc = [t \in Threads |-> IF t = P THEN "request_firmware" ELSE "idle"]

SpecWindow == InitWindow /\ [][Next]_vars

(***************************************************************************)
(* Operations callable once the device is registered.  ap130x_s_stream     *)
(* and ap130x_s_ctrl run with ap130x->lock held (the control handler's     *)
(* lock is ap130x->lock, line 1530); ap130x_log_status takes no lock.      *)
(***************************************************************************)
OpThreads == Threads \ {P}

\* ap130x_s_stream entered without taking ap130x->lock
s_stream_enter_NoLock ==
    /\ pc["stream"] = "idle" /\ pc[P] = "registered"
    /\ \E enable \in EnableValues :
        Goto("stream", IF enable = BoolAsInt(streaming) THEN "stream_done"
                       ELSE IF enable # 0 THEN "cfg_hinf" ELSE "stall_req", OK)
    /\ UNCHANGED <<env_vars, hw_vars, reg_page, streaming, fw, lock, debugfs, obs_vars>>
    /\ UNCHANGED <<retries, version, win_pos, fw_len, lane, xfer, sipm, calls>>

\* ap130x_s_stream, lines 1769-1786: lock, compare enable with streaming
s_stream_enter ==
    /\ pc["stream"] = "idle" /\ pc[P] = "registered"
    /\ lock = "free"
    /\ lock' = "stream"
    /\ \E enable \in EnableValues :
        Goto("stream", IF enable = BoolAsInt(streaming) THEN "stream_done"
                       ELSE IF enable # 0 THEN "cfg_hinf" ELSE "stall_req", OK)
    /\ UNCHANGED <<env_vars, hw_vars, reg_page, streaming, fw, debugfs, obs_vars>>
    /\ UNCHANGED <<retries, version, win_pos, fw_len, lane, xfer, sipm, calls>>

\* ap130x_s_stream, lines 1788-1795, after "goto done" at line 1772
s_stream_done ==
    /\ pc["stream"] = "stream_done"
    /\ lock' = "free"
    /\ Goto("stream", "idle", ret["stream"])
    /\ UNCHANGED <<env_vars, hw_vars, reg_page, streaming, fw, debugfs, obs_vars>>
    /\ UNCHANGED <<retries, version, win_pos, fw_len, lane, xfer, sipm, calls>>

\* ap130x_s_ctrl, lines 1326-1370, entered with the handler lock held
s_ctrl_enter ==
    /\ pc["ctrl"] = "idle" /\ pc[P] = "registered"
    /\ lock = "free"
    /\ lock' = "ctrl"
    /\ Goto("ctrl", "ctrl_write", OK)
    /\ UNCHANGED <<env_vars, hw_vars, reg_page, streaming, fw, debugfs, obs_vars>>
    /\ UNCHANGED <<retries, version, win_pos, fw_len, lane, xfer, sipm, calls>>

\* ap130x_log_status, lines 1969-1972: ap130x_dump_console (lines 1083-1119)
\* reads the console buffer with one raw transfer, or fails to allocate
log_status_enter ==
    /\ pc["log"] = "idle" /\ pc[P] = "registered"
    /\ \E e \in {OK, "ENOMEM"} \cup BusErrors :
        /\ Goto("log", IF e = OK THEN "log_regs" ELSE "idle", e)
        /\ fault_seen' = (fault_seen \/ e # OK)
    /\ UNCHANGED <<env_vars, hw_vars, dev_vars>>
    /\ UNCHANGED <<retries, version, win_pos, fw_len, lane, xfer, sipm, calls>>
    /\ UNCHANGED <<power_ons, fw_written, fw_releases, unwind, sen_ops, io_fail, sel_since_on, bad_access, bus>>

\* the image of the operations specification
OpsImage == FwFile(116, 100, 100)

\* The device as ap130x_probe leaves it: booted, output stalled, registered.
InitOps ==
    /\ fw_file = OpsImage
    /\ window = AP130X_FW_WINDOW_SIZE
    /\ topo \in Topologies
    /\ chip_version = AP130X_CHIP_ID
    /\ crc_mismatch = {}
    /\ isp_sup = [i \in IspSupplyIds |-> 1]
    /\ clk_en = 1
    /\ reset_gpio = 0
    /\ sen_sup = [x \in Sensors \X SensorSupplyIds |->
                    IF topo.has_supplies /\ x[2] < topo.num[x[1]] THEN 1 ELSE 0]
    /\ chip_page = AP130X_REG_PAGE(AP130X_ADV_IRQ_SYS_INTE)
    /\ chip_stage = 65535
    /\ chip_sys_start = AP130X_SYS_START_PLL_LOCK + AP130X_SYS_START_STALL_EN
                         + AP130X_SYS_START_STALL_MODE_DISABLED
    /\ chip_crc_ok = TRUE
    /\ chip_dma = NoDma
    /\ reg_page = AP130X_REG_PAGE(AP130X_ADV_IRQ_SYS_INTE)
    /\ streaming = FALSE
    /\ fw = "held"
    /\ debugfs = [NoDebugfs EXCEPT !.dir = TRUE]
    /\ lock = "free"
    /\ pc = [t \in Threads |-> IF t = P THEN "registered" ELSE "idle"]
    /\ ph = [t \in Threads |-> "call"]
    /\ ret = [t \in Threads |-> OK]
    /\ retries = 0
    /\ version = AP130X_CHIP_ID
    /\ win_pos = FwSize
    /\ fw_len = 0
    /\ lane = NoLane
    /\ xfer = NoXfer
    /\ sipm = NoSipm
    /\ calls = NoCalls
    /\ power_ons = 1
    /\ fw_written = FwSize
    /\ fw_releases = 0
    /\ unwind = <<>>
    /\ io_fail = NoFail
    /\ fault_seen = FALSE
    /\ sel_since_on = TRUE
    /\ bad_access = FALSE
    /\ sen_ops = (IF topo.has_supplies THEN SensorEnableOps(NUM_SENSORS, 0) ELSE <<>>)
    /\ bus = <<>>

NextOps ==
    \/ s_stream_enter
    \/ s_stream_done
    \/ s_ctrl_enter
    \/ log_status_enter
    \/ StallSleep("stream")
    \/ \E t \in OpThreads : ap130x_write_latched(t)
    \/ \E t \in OpThreads : ap130x_page_check(t)
    \/ \E t \in OpThreads : ap130x_page_select(t)
    \/ \E t \in OpThreads : ap130x_page_store(t)
    \/ \E t \in OpThreads : ap130x_target(t)

SpecOps == InitOps /\ [][NextOps]_vars

\* C1: in every interleaving of the operations callable after boot, every
\* access to an advanced-page register reaches the chip while the chip's
\* selected page is the descriptor's page, and once all callers have
\* returned the cached page is the chip's selected page.
C1_PagedAccessIsOneUnit ==
    /\ ~bad_access
    /\ (\A t \in OpThreads : pc[t] = "idle") => reg_page = chip_page

(***************************************************************************)
(* The Register Transport on its own: one caller, holding the lock its     *)
(* context requires, issues a chain of XferLen accesses on a powered ISP.  *)
(***************************************************************************)
X == "xfer"

\* descriptors with a width tag that __ap130x_write / __ap130x_read reject
BadWidthReg(tag, n) == tag * 16777216 + n

XferRegs ==
    { AP130X_BRIGHTNESS,
      AP130X_ADV_IRQ_SYS_INTE,
      AP130X_ADV_SINF_MIPI_INTERNAL_p_LANE_n_STAT(0, 0),
      AP130X_ADV_SINF_MIPI_INTERNAL_p_LANE_n_STAT(0, 1),
      BadWidthReg(1, 28672),
      BadWidthReg(3, 4784192) }

XferChains ==
    [1 .. XferLen -> [label : XferLabels, reg : XferRegs]]

InitXfer ==
    /\ fw_file = OpsImage
    /\ window = AP130X_FW_WINDOW_SIZE
    /\ topo \in {tp \in Topologies : ~tp.has_supplies}
    /\ chip_version = AP130X_CHIP_ID
    /\ crc_mismatch = {}
    /\ isp_sup = [i \in IspSupplyIds |-> 1]
    /\ clk_en = 1
    /\ reset_gpio = 0
    /\ sen_sup = [x \in Sensors \X SensorSupplyIds |-> 0]
    /\ reg_page \in {0, AP130X_REG_PAGE(AP130X_ADV_IRQ_SYS_INTE),
                      AP130X_REG_PAGE(AP130X_ADV_CAPTURE_A_FV_CNT)}
    /\ chip_page = reg_page
    /\ chip_stage = 65535
    /\ chip_sys_start = AP130X_SYS_START_PLL_LOCK + AP130X_SYS_START_STALL_EN
                         + AP130X_SYS_START_STALL_MODE_DISABLED
    /\ chip_crc_ok = TRUE
    /\ chip_dma = NoDma
    /\ streaming = FALSE
    /\ fw = "held"
    /\ debugfs = [NoDebugfs EXCEPT !.dir = TRUE]
    /\ lock = "free"
    /\ xfer \in {[chain |-> c, idx |-> 1, rets |-> <<>>, start |-> reg_page] : c \in XferChains}
    /\ pc = [t \in Threads |-> IF t = P THEN "registered"
                                ELSE IF t = X THEN xfer.chain[1].label ELSE "idle"]
    /\ ph = [t \in Threads |-> "call"]
    /\ ret = [t \in Threads |-> OK]
    /\ retries = 0
    /\ version = AP130X_CHIP_ID
    /\ win_pos = FwSize
    /\ fw_len = 0
    /\ lane = NoLane
    /\ sipm = NoSipm
    /\ calls = NoCalls
    /\ power_ons = 1
    /\ fw_written = FwSize
    /\ fw_releases = 0
    /\ unwind = <<>>
    /\ io_fail = NoFail
    /\ fault_seen = FALSE
    /\ sel_since_on = (reg_page # 0)
    /\ bad_access = FALSE
    /\ sen_ops = <<>>
    /\ bus = <<>>

NextXfer ==
    \/ ap130x_write_latched(X)
    \/ ap130x_page_check(X)
    \/ ap130x_page_select(X)
    \/ ap130x_page_store(X)
    \/ ap130x_target(X)

SpecXfer == InitXfer /\ [][NextXfer]_vars

(***************************************************************************)
(* The stream controller: one caller makes StreamCalls calls of            *)
(* ap130x_s_stream, one after the other, on a booted device.               *)
(***************************************************************************)
\* a start that configures and unstalls whatever the stream state is
StreamEntry_StartAlways(enable) ==
    IF enable # 0 THEN "cfg_hinf"
    ELSE IF enable = BoolAsInt(streaming) THEN "stream_done" ELSE "stall_req"

\* a stop that stalls whatever the stream state is
StreamEntry_StopAlways(enable) ==
    IF enable = 0 THEN "stall_req"
    ELSE IF enable = BoolAsInt(streaming) THEN "stream_done" ELSE "cfg_hinf"

\* ap130x_s_stream, lines 1771-1786: where a call with argument enable goes
StreamEntry(enable) ==
    IF enable = BoolAsInt(streaming) THEN "stream_done"
    ELSE IF enable # 0 THEN "cfg_hinf" ELSE "stall_req"

\* ap130x_s_stream, lines 1769-1786: the next call of the sequence
s_stream_call ==
    /\ pc["stream"] = "idle" /\ pc[P] = "registered"
    /\ calls.n < Len(calls.script)
    /\ lock = "free"
    /\ lock' = "stream"
    /\ calls' = [calls EXCEPT !.n = @ + 1, !.was = streaming]
    /\ Goto("stream", StreamEntry(calls.script[calls.n + 1]), OK)
    /\ UNCHANGED <<env_vars, hw_vars, reg_page, streaming, fw, debugfs, obs_vars>>
    /\ UNCHANGED <<retries, version, win_pos, fw_len, lane, xfer, sipm>>

InitStreamOf(scripts) ==
    /\ fw_file = OpsImage
    /\ window = AP130X_FW_WINDOW_SIZE
    /\ topo \in Topologies
    /\ chip_version = AP130X_CHIP_ID
    /\ crc_mismatch = {}
    /\ isp_sup = [i \in IspSupplyIds |-> 1]
    /\ clk_en = 1
    /\ reset_gpio = 0
    /\ sen_sup = [x \in Sensors \X SensorSupplyIds |->
                    IF topo.has_supplies /\ x[2] < topo.num[x[1]] THEN 1 ELSE 0]
    /\ reg_page \in {AP130X_REG_PAGE(AP130X_ADV_IRQ_SYS_INTE),
                      AP130X_REG_PAGE(AP130X_ADV_CAPTURE_A_FV_CNT)}
    /\ chip_page = reg_page
    /\ chip_stage = 65535
    /\ chip_sys_start = AP130X_SYS_START_PLL_LOCK + AP130X_SYS_START_STALL_EN
                         + AP130X_SYS_START_STALL_MODE_DISABLED
    /\ chip_crc_ok = TRUE
    /\ chip_dma = NoDma
    /\ streaming = FALSE
    /\ fw = "held"
    /\ debugfs = [NoDebugfs EXCEPT !.dir = TRUE]
    /\ lock = "free"
    /\ pc = [t \in Threads |-> IF t = P THEN "registered" ELSE "idle"]
    /\ ph = [t \in Threads |-> "call"]
    /\ ret = [t \in Threads |-> OK]
    /\ retries = 0
    /\ version = AP130X_CHIP_ID
    /\ win_pos = FwSize
    /\ fw_len = 0
    /\ lane = NoLane
    /\ xfer = NoXfer
    /\ sipm = NoSipm
    /\ calls \in {[script |-> sc, n |-> 0, was |-> FALSE] : sc \in scripts}
    /\ power_ons = 1
    /\ fw_written = FwSize
    /\ fw_releases = 0
    /\ unwind = <<>>
    /\ io_fail = NoFail
    /\ fault_seen = FALSE
    /\ sel_since_on = TRUE
    /\ bad_access = FALSE
    /\ sen_ops = (IF topo.has_supplies THEN SensorEnableOps(NUM_SENSORS, 0) ELSE <<>>)
    /\ bus = <<>>

\* the calls of the V4L2 core, which passes 0 or 1
InitStream == InitStreamOf([1 .. StreamCalls -> {0, 1}])

\* calls with any value of the int argument
InitEnable == InitStreamOf([1 .. EnableCalls -> EnableValues])

NextStream ==
    \/ s_stream_call
    \/ s_stream_done
    \/ StallSleep("stream")
    \/ ap130x_write_latched("stream")
    \/ ap130x_page_check("stream")
    \/ ap130x_page_select("stream")
    \/ ap130x_page_store("stream")
    \/ ap130x_target("stream")

SpecStream == InitStream /\ [][NextStream]_vars
SpecEnable == InitEnable /\ [][NextStream]_vars

(***************************************************************************)
(* The sensor register proxy: one caller makes one ap130x_sipm_read or     *)
(* ap130x_sipm_write of a sensor register descriptor on a booted device.   *)
(***************************************************************************)
S == "sipm"

\* sensor register descriptors: every width tag from 0 to MaxSipmTag, at a
\* 16-bit sensor register address
SipmRegs == {BadWidthReg(tag, 12288) : tag \in 0 .. MaxSipmTag}

\* lines 697-706 / 752-761: the width test and the call of the first wait
ap130x_sipm_enter(t) ==
    /\ pc[t] = "sipm_call"
    /\ IF AP130X_REG_SIZE(sipm.reg) > 2
       THEN Goto(t, "sipm_done", "EINVAL") /\ UNCHANGED sipm
       ELSE /\ Goto(t, "dma_poll", OK)
            /\ sipm' = [sipm EXCEPT !.i = DMA_WAIT_POLLS, !.wait = 1, !.seen = <<>>]
    /\ UNCHANGED <<env_vars, hw_vars, dev_vars, obs_vars>>
    /\ UNCHANGED <<retries, version, win_pos, fw_len, lane, xfer, calls>>

InitSipm ==
    /\ fw_file = OpsImage
    /\ window = AP130X_FW_WINDOW_SIZE
    /\ topo \in {tp \in Topologies : \A i \in Sensors : tp.num[i] # 0}
    /\ chip_version = AP130X_CHIP_ID
    /\ crc_mismatch = {}
    /\ isp_sup = [i \in IspSupplyIds |-> 1]
    /\ clk_en = 1
    /\ reset_gpio = 0
    /\ sen_sup = [x \in Sensors \X SensorSupplyIds |->
                    IF x[2] < topo.num[x[1]] THEN 1 ELSE 0]
    /\ reg_page \in {0, AP130X_REG_PAGE(AP130X_ADV_IRQ_SYS_INTE)}
    /\ chip_page = reg_page
    /\ chip_stage = 65535
    /\ chip_sys_start = AP130X_SYS_START_PLL_LOCK + AP130X_SYS_START_STALL_EN
                         + AP130X_SYS_START_STALL_MODE_DISABLED
    /\ chip_crc_ok = TRUE
    /\ chip_dma = NoDma
    /\ streaming = FALSE
    /\ fw = "held"
    /\ debugfs = [NoDebugfs EXCEPT !.dir = TRUE]
    /\ lock = "free"
    /\ xfer = NoXfer
    /\ calls = NoCalls
    /\ sipm \in {[NoSipm EXCEPT !.op = o, !.reg = r] : o \in {"read", "write"}, r \in SipmRegs}
    /\ pc = [t \in Threads |-> IF t = P THEN "registered"
                                ELSE IF t = S THEN "sipm_call" ELSE "idle"]
    /\ ph = [t \in Threads |-> "call"]
    /\ ret = [t \in Threads |-> OK]
    /\ retries = 0
    /\ version = AP130X_CHIP_ID
    /\ win_pos = FwSize
    /\ fw_len = 0
    /\ lane = NoLane
    /\ power_ons = 1
    /\ fw_written = FwSize
    /\ fw_releases = 0
    /\ unwind = <<>>
    /\ io_fail = NoFail
    /\ fault_seen = FALSE
    /\ sel_since_on = (reg_page # 0)
    /\ bad_access = FALSE
    /\ sen_ops = SensorEnableOps(NUM_SENSORS, 0)
    /\ bus = <<>>

\* the DMA registers are on page 0: no access of the proxy selects a page
NextSipm ==
    \/ ap130x_sipm_enter(S)
    \/ ap130x_write_latched(S)
    \/ ap130x_target(S)

\* the caller runs to the end of the call: every sleep of the wait returns
SpecSipm == InitSipm /\ [][NextSipm]_vars /\ WF_vars(NextSipm)

(***************************************************************************)
(* The debugfs attributes sipm_addr and sipm_data, lines 807-887.  Their   *)
(* handlers run under ap130x->debugfs.lock.                                *)
(***************************************************************************)
\* A value of sipm_addr is kept as bit 31 (i) and bits 30:0 (low); the u64
\* written to the attribute has bits 63:32 (high) as well, which the 32-bit
\* mask of line 822 does not test and the store of line 834 drops.
\* Values written to sipm_addr: none, 8-bit and 16-bit registers of either
\* index, and values ap130x_sipm_addr_set rejects (size 0, size 3, a bit
\* outside the format)
DebugfsAddrs ==
    {[high |-> 0, i |-> 0, low |-> 0],
     [high |-> 0, i |-> 0, low |-> 16777216 + 12288],
     [high |-> 0, i |-> 0, low |-> 33554432 + 12288],
     [high |-> 0, i |-> 1, low |-> 33554432 + 12288],
     [high |-> 0, i |-> 0, low |-> 12288],
     [high |-> 0, i |-> 0, low |-> 50331648 + 12288],
     [high |-> 0, i |-> 0, low |-> 1073741824 + 16777216 + 12288],
     [high |-> 1, i |-> 0, low |-> 16777216 + 12288],
     [high |-> 1, i |-> 0, low |-> 0]}

\* the checks of lines 822-831 without the switch on the size field
SipmAddrValid_MaskOnly(val) ==
    /\ val.low \div 134217728 = 0
    /\ (val.low % 16777216) \div 65536 = 0

\* lines 822-831: val & ~0x8700ffff is 0 and the size field is 1 or 2
SipmAddrValid(val) ==
    /\ val.low \div 134217728 = 0
    /\ (val.low % 16777216) \div 65536 = 0
    /\ (val.low \div 16777216) % 8 \in {1, 2}

\* ap130x_sipm_addr_set, lines 818-838
sipm_addr_set(t) ==
    /\ pc[t] = "idle" /\ debugfs.dir
    /\ \E val \in DebugfsAddrs :
        IF SipmAddrValid(val)
        THEN /\ debugfs.lock = "free"
             /\ debugfs' = [debugfs EXCEPT !.sipm_addr = [i |-> val.i, low |-> val.low]]
             /\ ret' = [ret EXCEPT ![t] = OK]
        ELSE /\ ret' = [ret EXCEPT ![t] = "EINVAL"]
             /\ UNCHANGED debugfs
    /\ UNCHANGED <<env_vars, hw_vars, reg_page, streaming, fw, lock, obs_vars>>
    /\ UNCHANGED <<pc, ph, retries, version, win_pos, fw_len, lane, xfer, sipm, calls>>

\* values written to sipm_data: one of two bytes and one of three
SipmValues == {4660, 109517}

\* lines 855 / 880: ap130x_sipm_read or ap130x_sipm_write called with port
\* addr >> 30 and descriptor addr & ~BIT(31); val is the value a write of
\* sipm_data passes
SipmCall ==
    LET call == [NoSipm EXCEPT
                    !.port = 2 * debugfs.sipm_addr.i + debugfs.sipm_addr.low \div 1073741824,
                    !.reg = debugfs.sipm_addr.low,
                    !.n = sipm.n + 1, !.prev = sipm.prev]
    IN  {[call EXCEPT !.op = "read"]}
        \cup {[call EXCEPT !.op = "write", !.val = v] : v \in SipmValues}

\* ap130x_sipm_data_get / ap130x_sipm_data_set, lines 847-856 / 872-881:
\* take debugfs.lock, read sipm_addr, call the proxy with addr & ~BIT(31)
sipm_data_enter(t) ==
    /\ pc[t] = "idle" /\ debugfs.dir
    /\ debugfs.lock = "free"
    /\ sipm.n < MaxProxyCalls
    /\ debugfs' = [debugfs EXCEPT !.lock = t]
    /\ IF debugfs.sipm_addr = [i |-> 0, low |-> 0]
       THEN Goto(t, "dbg_unlock", "EINVAL") /\ UNCHANGED sipm
       ELSE /\ Goto(t, "sipm_call", OK)
            /\ \E c \in SipmCall : sipm' = c
    /\ UNCHANGED <<env_vars, hw_vars, reg_page, streaming, fw, lock, obs_vars>>
    /\ UNCHANGED <<retries, version, win_pos, fw_len, lane, xfer, calls>>

\* lines 860-863 / 883-886: unlock and return ret
sipm_data_exit(t) ==
    /\ pc[t] \in {"sipm_done", "dbg_unlock"}
    /\ debugfs.lock = t
    /\ debugfs' = [debugfs EXCEPT !.lock = "free"]
    /\ Goto(t, "idle", ret[t])
    /\ sipm' = [NoSipm EXCEPT !.n = sipm.n,
                              !.prev = IF pc[t] = "sipm_done"
                                       THEN [op |-> sipm.op, port |-> sipm.port, reg |-> sipm.reg,
                                             val |-> sipm.val, ret |-> ret[t]]
                                       ELSE sipm.prev]
    /\ UNCHANGED <<env_vars, hw_vars, reg_page, streaming, fw, lock, obs_vars>>
    /\ UNCHANGED <<retries, version, win_pos, fw_len, lane, xfer, calls>>

(***************************************************************************)
(* The debugfs specification: two tasks read and write the sipm_addr and   *)
(* sipm_data files of a booted device at the same time.                    *)
(***************************************************************************)
\* the sipm_data handlers without mutex_lock(&ap130x->debugfs.lock)
sipm_data_begin_NoLock(t) ==
    /\ pc[t] = "idle" /\ debugfs.dir
    /\ debugfs.sipm_addr # NoDebugfs.sipm_addr
    /\ sipm.n < MaxProxyCalls
    /\ debugfs' = [debugfs EXCEPT !.lock = t]
    /\ Goto(t, "sipm_call", OK)
    /\ \E c \in SipmCall : sipm' = c
    /\ UNCHANGED <<env_vars, hw_vars, reg_page, streaming, fw, lock, obs_vars>>
    /\ UNCHANGED <<retries, version, win_pos, fw_len, lane, xfer, calls>>

\* a read or write of the sipm_data file, lines 840-887
sipm_data_begin(t) == sipm_data_enter(t)

InitDebugfs ==
    /\ fw_file = OpsImage
    /\ window = AP130X_FW_WINDOW_SIZE
    /\ topo \in {tp \in Topologies : tp.has_supplies /\ \A i \in Sensors : tp.num[i] # 0}
    /\ chip_version = AP130X_CHIP_ID
    /\ crc_mismatch = {}
    /\ isp_sup = [i \in IspSupplyIds |-> 1]
    /\ clk_en = 1
    /\ reset_gpio = 0
    /\ sen_sup = [x \in Sensors \X SensorSupplyIds |->
                    IF x[2] < topo.num[x[1]] THEN 1 ELSE 0]
    /\ reg_page = 0
    /\ chip_page = reg_page
    /\ chip_stage = 65535
    /\ chip_sys_start = AP130X_SYS_START_PLL_LOCK + AP130X_SYS_START_STALL_EN
                         + AP130X_SYS_START_STALL_MODE_DISABLED
    /\ chip_crc_ok = TRUE
    /\ chip_dma = NoDma
    /\ streaming = FALSE
    /\ fw = "held"
    /\ debugfs = [NoDebugfs EXCEPT !.dir = TRUE]
    /\ lock = "free"
    /\ xfer = NoXfer
    /\ calls = NoCalls
    /\ sipm = NoSipm
    /\ pc = [t \in Threads |-> IF t = P THEN "registered" ELSE "idle"]
    /\ ph = [t \in Threads |-> "call"]
    /\ ret = [t \in Threads |-> OK]
    /\ retries = 0
    /\ version = AP130X_CHIP_ID
    /\ win_pos = FwSize
    /\ fw_len = 0
    /\ lane = NoLane
    /\ power_ons = 1
    /\ fw_written = FwSize
    /\ fw_releases = 0
    /\ unwind = <<>>
    /\ io_fail = NoFail
    /\ fault_seen = FALSE
    /\ sel_since_on = (reg_page # 0)
    /\ bad_access = FALSE
    /\ sen_ops = SensorEnableOps(NUM_SENSORS, 0)
    /\ bus = <<>>

NextDebugfs ==
    \E t \in DebugfsCallers :
        \/ sipm_addr_set(t)
        \/ sipm_data_begin(t)
        \/ ap130x_sipm_enter(t)
        \/ ap130x_write_latched(t)
        \/ ap130x_target(t)
        \/ sipm_data_exit(t)

SpecDebugfs == InitDebugfs /\ [][NextDebugfs]_vars

(***************************************************************************)
(* The probe specification: one probe of one device, with the callers of   *)
(* the subdev operations and of the debugfs attributes ready to begin an   *)
(* operation as soon as the device lets them.  What an operation does      *)
(* once begun is the matter of the specifications above.                   *)
(***************************************************************************)
\* a stream call begun whether or not the subdev is registered
s_stream_begin_Unregistered ==
    /\ pc["stream"] = "idle"
    /\ lock = "free"
    /\ lock' = "stream"
    /\ \E enable \in EnableValues : Goto("stream", StreamEntry(enable), OK)
    /\ UNCHANGED <<env_vars, hw_vars, reg_page, streaming, fw, debugfs, obs_vars>>
    /\ UNCHANGED <<retries, version, win_pos, fw_len, lane, xfer, sipm, calls>>

\* ap130x_s_stream called through the subdev v4l2_async_register_subdev
\* registered (line 2631)
s_stream_begin == s_stream_enter

NextProbe ==
    \/ Next
    \/ s_stream_begin
    \/ s_ctrl_enter
    \/ log_status_enter
    \/ \E t \in DebugfsCallers : sipm_addr_set(t)
    \/ \E t \in DebugfsCallers : sipm_data_enter(t)

SpecProbe == Init /\ [][NextProbe]_vars

(***************************************************************************)
(* Properties of the boot sequencer.                                       *)
(***************************************************************************)
BootReturned == pc[P] \in {"hw_ready", "hw_failed"}
BootFailed == pc[P] = "hw_failed"

\* the image passes the checks of ap130x_request_firmware
ImageValid ==
    fw_file.present /\ fw_file.size >= FW_HEADER_SIZE /\ fw_file.pll_init_size <= FwSize

IspRailsOff == clk_en = 0 /\ \A i \in IspSupplyIds : isp_sup[i] = 0
SensorRailsOff == \A x \in Sensors \X SensorSupplyIds : sen_sup[x] = 0

\* the version read returned a value other than the expected chip id
VersionMismatch == version # -1 /\ version # AP130X_CHIP_ID

\* C2: whenever the ISP is unpowered the cached page is "none" (0), so that
\* whenever a caller is about to transfer an advanced-page register, a
\* page-select write has reached the chip since the last power-on.
C2_CachedPageResetWithPower ==
    /\ ~IspPowered => reg_page = 0
    /\ \A t \in Threads :
        (InAccess(t) /\ ph[t] = "target" /\ AP130X_REG_PAGE(RegOf(t)) # 0) => sel_since_on

\* C3: after a bus transfer has failed during DETECT_CHIP or LOAD_FIRMWARE
\* the ISP is never powered on again, and the boot returns that error with
\* the ISP and the sensors powered off.
C3_IoErrorNeverRetried ==
    io_fail.err # OK =>
        /\ power_ons = io_fail.at
        /\ pc[P] # "hw_ready"
        /\ BootFailed => (ret[P] = io_fail.err /\ ~IspPowered /\ IspRailsOff /\ SensorRailsOff)

\* C4: when the boot returns a failure, no ISP supply, ISP clock or sensor
\* supply is still enabled.
C4_FailureLeavesNothingEnabled ==
    BootFailed => (IspRailsOff /\ SensorRailsOff)

\* C5: with the CRC accumulator wrong after the first two loads and right
\* after the third (and nothing else failing), the boot returns READY after
\* exactly 3 ISP power-ons, and never goes past a load whose CRC is wrong.
C5_TwoCrcMismatchesThenReady ==
    (crc_mismatch = {1, 2} /\ ~fault_seen) =>
        /\ pc[P] = "hw_ready" => power_ons = 3
        /\ pc[P] \in {"stall_req", "stall_en", "stall_sleep", "stall_inte"} => chip_crc_ok

\* C6: with the CRC accumulator wrong after every load (and nothing else
\* failing), the boot makes exactly 3 attempts and returns RetriesExceeded
\* with the ISP and all sensor rails off.
C6_AlwaysBadCrcExhaustsRetries ==
    (crc_mismatch = 1 .. MAX_FW_LOAD_RETRIES /\ ~fault_seen /\ BootReturned
        /\ ImageValid /\ chip_version = AP130X_CHIP_ID) =>
        /\ BootFailed
        /\ ret[P] = "ETIMEDOUT"
        /\ power_ons = MAX_FW_LOAD_RETRIES
        /\ ~IspPowered /\ IspRailsOff /\ SensorRailsOff

\* C7 as stated: a chip-version mismatch makes the boot fail with
\* InvalidDevice (-EINVAL) after exactly one ISP power-on, no retry and no
\* firmware byte, with the ISP and the sensors powered off.
C7_MismatchIsInvalidDevice ==
    VersionMismatch =>
        /\ power_ons = 1 /\ retries = 0 /\ fw_written = 0
        /\ BootFailed => (ret[P] = "EINVAL" /\ ~IspPowered /\ IspRailsOff /\ SensorRailsOff)

\* C7 amended: after a chip-version mismatch the boot fails after exactly one
\* ISP power-on, with no retry and no firmware byte written and with the ISP
\* and the sensors powered off; the error is InvalidDevice (-EINVAL) when the
\* revision read that follows the version read succeeds, and that read's
\* bus error otherwise.
C7_MismatchIsFatal ==
    VersionMismatch =>
        /\ power_ons = 1 /\ retries = 0 /\ fw_written = 0
        /\ pc[P] \in {"detect_revision", "error_power", "error_power_sensors",
                      "error_firmware", "hw_failed"}
        /\ BootFailed =>
            /\ ret[P] = IF io_fail.err = OK THEN "EINVAL" ELSE io_fail.err
            /\ ~IspPowered /\ IspRailsOff /\ SensorRailsOff

C7_Witness ==
    VersionMismatch /\ BootFailed /\ ret[P] = "EINVAL" /\ power_ons = 1

\* C8: whenever the boot has returned, the firmware image it obtained has
\* been released exactly once and is no longer held.
C8_ImageReleasedOnReturn ==
    BootReturned => (fw # "held" /\ (fw_file.present => fw_releases = 1))

\* The stage of the boot state machine the probe is in.
Stage(l) ==
    CASE l = "request_firmware" -> "REQUEST_FIRMWARE"
      [] l = "power_on_sensors" -> "POWER_ON_SENSORS"
      [] l = "power_on" -> "POWER_ON_ISP"
      [] l \in {"detect_version", "detect_revision"} -> "DETECT_CHIP"
      [] l \in {"lf_crc_clear", "lf_pll", "lf_stage2", "lf_rest", "lf_wait",
                "lf_stage_done", "retry_power_off"} -> "LOAD_FIRMWARE"
      [] l \in {"stall_req", "stall_en", "stall_sleep", "stall_inte"} -> "STALL_OUTPUT"
      [] l = "hw_ready" -> "READY"
      [] l \in {"error_power", "error_power_sensors", "error_firmware"} -> "CLEANUP"
      [] l = "hw_failed" -> "FAILED"
      [] OTHER -> "EXPOSED"

\* the stage changes of the state machine of the boot sequencer: the linear
\* chain, the retry from LOAD_FIRMWARE, and CLEANUP from every stage
StageSteps ==
    { <<"REQUEST_FIRMWARE", "POWER_ON_SENSORS">>, <<"POWER_ON_SENSORS", "POWER_ON_ISP">>,
      <<"POWER_ON_ISP", "DETECT_CHIP">>, <<"DETECT_CHIP", "LOAD_FIRMWARE">>,
      <<"LOAD_FIRMWARE", "POWER_ON_ISP">>, <<"LOAD_FIRMWARE", "STALL_OUTPUT">>,
      <<"STALL_OUTPUT", "READY">>, <<"CLEANUP", "FAILED">>,
      <<"READY", "EXPOSED">> }
    \cup { <<s, "CLEANUP">> : s \in {"REQUEST_FIRMWARE", "POWER_ON_SENSORS", "POWER_ON_ISP",
                                     "DETECT_CHIP", "LOAD_FIRMWARE", "STALL_OUTPUT"} }

\* C9: the boot visits its stages in the order of the state machine: READY
\* only from STALL_OUTPUT, every stage only from its predecessor, and a
\* failure return (FAILED) only from CLEANUP, except that a boot that never
\* obtained an image has nothing to clean up.
C9_StageOrder ==
    [][ \/ Stage(pc[P]) = Stage(pc'[P])
        \/ <<Stage(pc[P]), Stage(pc'[P])>> \in StageSteps
        \/ Stage(pc[P]) = "REQUEST_FIRMWARE" /\ Stage(pc'[P]) = "FAILED" /\ fw' = "none" ]_vars

\* C10: the steps of an error unwind are a run of ap130x_power_off,
\* ap130x_power_off_sensors, release_firmware in this order; each turns off
\* or releases something that is on or held; and when the boot has returned
\* from an unwind, the release of the image was its last step.
UnwindOrder == <<"power_off", "power_off_sensors", "release_firmware">>
RequestFailed == BootFailed /\ unwind = <<>>
\* ap130x_request_firmware returned 0
RequestPassed == pc[P] # "request_firmware" /\ ~RequestFailed

NoPowerControl ==
    power_ons = 0 /\ ~IspPowered /\ IspRailsOff /\ SensorRailsOff

FailedAt ==
    IF \E k \in 1 .. Len(sen_ops) : sen_ops[k].op = "enable_failed"
    THEN CHOOSE k \in 1 .. Len(sen_ops) : sen_ops[k].op = "enable_failed"
    ELSE 0

\* slot a comes before slot b in the order sensor 0 before sensor 1, each
\* sensor's supplies in list order
SlotBefore(a, b) == a[1] < b[1] \/ (a[1] = b[1] /\ a[2] < b[2])
SlotOf(o) == <<o.sensor, o.supply>>

InPage0Access(t) == InAccess(t) /\ AP130X_REG_PAGE(RegOf(t)) = 0
InPagedAccess(t) == InAccess(t) /\ AP130X_REG_PAGE(RegOf(t)) # 0
\* this step is a step of caller t
StepOf(t) == pc'[t] # pc[t] \/ ph'[t] # ph[t] \/ ret'[t] # ret[t]

\* C13: a read or write of a descriptor of page 0 never gets to the
\* page-select write, whatever the cached page is, and its steps leave the
\* cached page and the chip's selected page unchanged.
C13_Page0NeverSelects ==
    [][ \A t \in Threads :
          InPage0Access(t) =>
            /\ ph[t] = "call"
            /\ StepOf(t) => (reg_page' = reg_page /\ chip_page' = chip_page
                             /\ ph'[t] = "call") ]_vars

C13_Witness ==
    /\ pc["stream"] = "stall_en" /\ ret["stream"] = OK
    /\ reg_page # 0 /\ reg_page = AP130X_REG_PAGE(AP130X_ADV_CAPTURE_A_FV_CNT)

\* positions in the bus log of the transfers of access k of the chain
SelectsOf(k) == {i \in 1 .. Len(bus) : bus[i].acc = k /\ bus[i].kind = "select"}
TargetsOf(k) == {i \in 1 .. Len(bus) : bus[i].acc = k /\ bus[i].kind # "select"}
\* the page selected in the chip before position i of the bus log: that of
\* the latest page-select write that succeeded, else the one the chain started with
PageBefore(i) ==
    LET Sel == {j \in 1 .. i - 1 : bus[j].kind = "select" /\ bus[j].res = OK}
    IN  IF Sel = {} THEN xfer.start
        ELSE bus[CHOOSE j \in Sel : \A m \in Sel : m <= j].val
\* the cached page when access k started
CacheBefore(k) ==
    LET Sel == {j \in 1 .. Len(bus) : bus[j].kind = "select" /\ bus[j].res = OK /\ bus[j].acc < k}
    IN  IF Sel = {} THEN xfer.start
        ELSE bus[CHOOSE j \in Sel : \A m \in Sel : m <= j].val
PageOfAccess(k) == AP130X_REG_PAGE(xfer.chain[k].reg)

\* C14: two consecutive successful accesses (reads or writes) to descriptors
\* of the same non-zero page, the cache holding another page or none before
\* the first: exactly one page-select write, before the first target
\* transfer, and none for the second access.
C14_OneSelectForSamePage ==
    \A k \in 1 .. Len(xfer.rets) - 1 :
        (/\ PageOfAccess(k) # 0 /\ PageOfAccess(k + 1) = PageOfAccess(k)
         /\ xfer.rets[k] = OK /\ xfer.rets[k + 1] = OK
         /\ CacheBefore(k) # PageOfAccess(k)) =>
            /\ Cardinality(SelectsOf(k)) = 1
            /\ \A i \in SelectsOf(k) :
                /\ bus[i].val = PageOfAccess(k) /\ bus[i].res = OK
                /\ \A j \in TargetsOf(k) : i < j
            /\ SelectsOf(k + 1) = {}
            /\ Cardinality(TargetsOf(k)) = 1 /\ Cardinality(TargetsOf(k + 1)) = 1

C14_Witness ==
    /\ Len(xfer.rets) >= 2
    /\ xfer.rets[1] = OK /\ xfer.rets[2] = OK
    /\ xfer.chain[1] = [label |-> "xfer_read",
                        reg |-> AP130X_ADV_SINF_MIPI_INTERNAL_p_LANE_n_STAT(0, 0)]
    /\ xfer.chain[2] = [label |-> "xfer_write",
                        reg |-> AP130X_ADV_SINF_MIPI_INTERNAL_p_LANE_n_STAT(0, 1)]
    /\ xfer.start = AP130X_REG_PAGE(AP130X_ADV_IRQ_SYS_INTE)

\* C15: consecutive accesses to descriptors of differing non-zero pages.
\* The page selected when a paged target transfer is made is the page of
\* its descriptor (the latest page-select write before it carries that page),
\* and between the target transfers of two such accesses there is a
\* page-select write carrying the page of the second.
C15_SelectBeforeEachTarget ==
    /\ \A i \in 1 .. Len(bus) :
        (bus[i].kind # "select" /\ PageOfAccess(bus[i].acc) # 0) =>
            PageBefore(i) = PageOfAccess(bus[i].acc)
    /\ \A k \in 1 .. Len(xfer.chain) - 1 :
        (/\ PageOfAccess(k) # 0 /\ PageOfAccess(k + 1) # 0
         /\ PageOfAccess(k) # PageOfAccess(k + 1)
         /\ TargetsOf(k) # {} /\ TargetsOf(k + 1) # {}) =>
            \E s \in SelectsOf(k + 1) :
                /\ bus[s].val = PageOfAccess(k + 1) /\ bus[s].res = OK
                /\ \A a \in TargetsOf(k) : a < s
                /\ \A b \in TargetsOf(k + 1) : s < b
                /\ \A a \in SelectsOf(k) : \A b \in TargetsOf(k) : a < b /\ b < s

C15_Witness ==
    /\ Len(xfer.rets) >= 2
    /\ xfer.chain[1].reg = AP130X_ADV_IRQ_SYS_INTE
    /\ xfer.chain[2].reg = AP130X_ADV_SINF_MIPI_INTERNAL_p_LANE_n_STAT(0, 0)
    /\ xfer.start = 0
    /\ Cardinality(SelectsOf(1)) = 1 /\ Cardinality(SelectsOf(2)) = 1
    /\ TargetsOf(1) # {} /\ TargetsOf(2) # {}

\* C16: when a page-select write fails the target register is not accessed
\* and the access returns the bus error of that write; the cache holds the
\* page of the latest page-select write that succeeded and was stored, so a
\* failed write leaves it as it was.
C16_FailedSelectKeepsCache ==
    /\ \A k \in 1 .. Len(xfer.rets) : \A s \in SelectsOf(k) :
        bus[s].res # OK =>
            /\ bus[s].res \in BusErrors
            /\ TargetsOf(k) = {}
            /\ xfer.rets[k] = bus[s].res
            /\ CacheBefore(k + 1) = CacheBefore(k)
    /\ pc[X] \in XferLabels \cup {"xfer_done"} =>
        reg_page = IF ph[X] = "update" THEN CacheBefore(xfer.idx)
                   ELSE CacheBefore(xfer.idx + 1)

C16_Witness ==
    /\ pc[X] = "xfer_done"
    /\ xfer.start # 0
    /\ PageOfAccess(1) \notin {0, xfer.start}
    /\ \E s \in SelectsOf(1) : bus[s].res \in BusErrors
    /\ PageOfAccess(2) = xfer.start
    /\ xfer.rets[2] = OK
    /\ reg_page = xfer.start

\* the writes of the chain that share the sticky error slot
StickyWrites == {k \in 1 .. Len(xfer.chain) : xfer.chain[k].label = "xfer_write_err"}
\* the first of them that failed
FirstFailure(k) ==
    /\ k \in StickyWrites /\ k <= Len(xfer.rets) /\ xfer.rets[k] # OK
    /\ \A j \in StickyWrites : j < k => xfer.rets[j] = OK

\* C17: in a chain of writes sharing one sticky error slot, every write after
\* the first failed one makes no bus transfer, leaves the cache as it is and
\* returns the first error, and the slot holds the error of the first
\* failure from then on.
C17_StickyChainStopsAtFirstError ==
    \A k \in StickyWrites : FirstFailure(k) =>
        /\ ret[X] = xfer.rets[k]
        /\ \A m \in StickyWrites : (k < m /\ m <= Len(xfer.rets)) =>
            /\ SelectsOf(m) = {} /\ TargetsOf(m) = {}
            /\ CacheBefore(m + 1) = CacheBefore(m)
            /\ xfer.rets[m] = xfer.rets[k]
        /\ (xfer.idx \in StickyWrites /\ xfer.idx > k) =>
            /\ ph[X] = "call"
            /\ reg_page = CacheBefore(xfer.idx)

C17_Witness ==
    /\ pc[X] = "xfer_done"
    /\ FirstFailure(1)
    /\ xfer.rets[1] \in BusErrors
    /\ 2 \in StickyWrites
    /\ xfer.chain[2].reg = AP130X_ADV_SINF_MIPI_INTERNAL_p_LANE_n_STAT(0, 0)
    /\ reg_page # PageOfAccess(2)
    /\ xfer.rets[2] = xfer.rets[1]

BadWidth(k) == AP130X_REG_SIZE(xfer.chain[k].reg) \notin {2, 4}
\* the sticky slot held an error when access k was called
LatchedBefore(k) ==
    /\ k \in StickyWrites
    /\ \E j \in StickyWrites : j < k /\ xfer.rets[j] # OK
FailedSelectsOf(k) == {s \in SelectsOf(k) : bus[s].res # OK}

\* C18 as stated: every read or write of a descriptor whose width tag is
\* neither 2 nor 4 returns -EINVAL; a transfer of tag 2 goes to the 2-byte
\* register space only and one of tag 4 to the 4-byte space only.
C18_BadWidthAlwaysInvalidArgument ==
    /\ \A k \in 1 .. Len(xfer.rets) : BadWidth(k) => xfer.rets[k] = "EINVAL"
    /\ \A i \in 1 .. Len(bus) :
        /\ bus[i].tag = 2 => bus[i].regmap = "regmap16"
        /\ bus[i].tag = 4 => bus[i].regmap = "regmap32"

\* C18: a read or write of a descriptor whose width tag is neither 2 nor 4
\* fails and transfers nothing for the target: with -EINVAL when the target
\* transfer is attempted, with the bus error of its page-select write when
\* that write failed, with the latched error when its sticky slot already
\* held one.  Every transfer on the bus has tag 2 or 4; tag 2 goes to the
\* 2-byte register space only and tag 4 to the 4-byte space only.
C18_BadWidthFails ==
    /\ \A k \in 1 .. Len(xfer.rets) : BadWidth(k) =>
        /\ xfer.rets[k] # OK
        /\ TargetsOf(k) = {}
        /\ IF LatchedBefore(k)
           THEN xfer.rets[k] = ret[X] /\ SelectsOf(k) = {}
           ELSE IF FailedSelectsOf(k) # {}
           THEN \A s \in FailedSelectsOf(k) : xfer.rets[k] = bus[s].res
           ELSE xfer.rets[k] = "EINVAL"
    /\ \A i \in 1 .. Len(bus) :
        /\ bus[i].tag \in {2, 4}
        /\ bus[i].tag = 2 <=> bus[i].regmap = "regmap16"
        /\ bus[i].tag = 4 <=> bus[i].regmap = "regmap32"

C18_Witness ==
    /\ pc[X] = "xfer_done"
    /\ xfer.chain[1] = [label |-> "xfer_read", reg |-> BadWidthReg(1, 28672)]
    /\ xfer.rets[1] = "EINVAL"
    /\ xfer.chain[2] = [label |-> "xfer_write", reg |-> AP130X_ADV_IRQ_SYS_INTE]
    /\ xfer.rets[2] = OK
    /\ \E i \in 1 .. Len(bus) : bus[i].kind = "write" /\ bus[i].acc = 2

\* the width tag of the descriptor of the proxy call
SipmTag == AP130X_REG_SIZE(sipm.reg)
SipmReturned == pc[S] = "sipm_done"

\* C19: a sensor-proxy read or write of a descriptor whose width tag is not
\* 1 or 2 returns -EINVAL with no bus transfer made and no wait for the DMA
\* engine begun.
C19_BadTagRejectedFirst ==
    (sipm.op # "none" /\ SipmTag \notin {1, 2}) =>
        /\ pc[S] \in {"sipm_call", "sipm_done"}
        /\ bus = <<>>
        /\ sipm.wait = 0 /\ sipm.waits = <<>>
        /\ SipmReturned => ret[S] = "EINVAL"

\* the waits of the call so far, the one in progress included, as the
\* sequence of what each poll observed and the value returned (OK while the
\* wait is in progress)
Waits ==
    {sipm.waits[n] : n \in 1 .. Len(sipm.waits)} \cup
    (IF pc[S] = "dma_poll" THEN {[seen |-> sipm.seen, ret |-> "polling"]} ELSE {})
LastSeen(w) == w.seen[Len(w.seen)]

WaitIdleContract ==
    \A w \in Waits :
        /\ Len(w.seen) <= DMA_WAIT_POLLS
        /\ \A n \in 1 .. Len(w.seen) - 1 : w.seen[n] = "busy"
        /\ w.ret = "polling" =>
            /\ Len(w.seen) < DMA_WAIT_POLLS
            /\ \A n \in 1 .. Len(w.seen) : w.seen[n] = "busy"
            /\ sipm.i = DMA_WAIT_POLLS - Len(w.seen)
        /\ w.ret # "polling" =>
            /\ Len(w.seen) >= 1
            /\ w.ret = OK <=> LastSeen(w) = "idle"
            /\ w.ret = "ETIMEDOUT" <=>
                (Len(w.seen) = DMA_WAIT_POLLS /\ LastSeen(w) = "busy")
            /\ w.ret \in BusErrors <=> LastSeen(w) = w.ret
            /\ w.ret \in {OK, "ETIMEDOUT"} \cup BusErrors

\* C20: a wait for the DMA engine polls the control register at most 50
\* times; it returns 0 at the first poll that reads mode IDLE, the 50th
\* included, -ETIMEDOUT exactly when 50 polls read a busy mode, and the
\* bus error of the first poll whose read fails; and the call it is part
\* of returns.
C20_WaitIdleBounded == []WaitIdleContract /\ <>SipmReturned

C20_Witness ==
    /\ SipmReturned
    /\ Len(sipm.waits) = 2
    /\ Len(sipm.waits[1].seen) = DMA_WAIT_POLLS /\ sipm.waits[1].ret = OK
    /\ Len(sipm.waits[2].seen) = DMA_WAIT_POLLS /\ sipm.waits[2].ret = "ETIMEDOUT"

\* the step of ap130x_sipm_read that made transfer i of the bus log: 1 the
\* first wait's polls, 2 transfer size, 3 source descriptor, 4 destination,
\* 5 copy trigger, 6 the second wait's polls, 7 the read of the scratch
SipmStepOf(i) ==
    LET x == bus[i]
        \* the first wait is over and made fewer than i polls
        programmed == sipm.waits # <<>> /\ i > Len(sipm.waits[1].seen)
    IN  CASE x.kind = "read" /\ x.addr = AP130X_REG_ADDR(AP130X_DMA_CTRL) ->
                IF programmed THEN 6 ELSE 1
          [] x.kind = "write" /\ x.addr = AP130X_REG_ADDR(AP130X_DMA_SIZE) -> 2
          [] x.kind = "write" /\ x.addr = AP130X_REG_ADDR(AP130X_DMA_SRC) -> 3
          [] x.kind = "write" /\ x.addr = AP130X_REG_ADDR(AP130X_DMA_DST) -> 4
          [] x.kind = "write" /\ x.addr = AP130X_REG_ADDR(AP130X_DMA_CTRL) -> 5
          [] x.kind = "read" /\ x.addr = AP130X_REG_ADDR(AP130X_DMA_DST) -> 7
          [] OTHER -> 0
\* step b may directly follow step a
SipmFollows(a, b) ==
    \/ a \in {1, 6} /\ b = a
    \/ b = a + 1

\* C29: the bus transfers of a sensor-proxy read are made in the order
\* idle-wait, transfer size, source descriptor, destination, copy trigger,
\* idle-wait, scratch read.  A transfer is made only after every earlier one
\* succeeded, the first write only after the first wait returned 0, the
\* scratch read only after the second wait returned 0, and a call that
\* returned an error made no transfer after the failed step.
C29_SipmReadOrder ==
    sipm.op = "read" =>
        /\ bus # <<>> => SipmStepOf(1) = 1
        /\ \A i \in 1 .. Len(bus) - 1 :
            /\ bus[i].res = OK
            /\ SipmFollows(SipmStepOf(i), SipmStepOf(i + 1))
        /\ \A i \in 1 .. Len(bus) :
            /\ SipmStepOf(i) = 2 => (Len(sipm.waits) >= 1 /\ sipm.waits[1].ret = OK)
            /\ SipmStepOf(i) = 7 => (Len(sipm.waits) = 2 /\ sipm.waits[2].ret = OK)
            /\ SipmStepOf(i) = 5 =>
                (i > 3 /\ \A j \in i - 3 .. i - 1 : bus[j].kind = "write" /\ bus[j].res = OK)
        /\ \A n \in 1 .. Len(sipm.waits) : sipm.waits[n].ret # OK =>
            /\ SipmReturned /\ ret[S] = sipm.waits[n].ret
            /\ \A i \in 1 .. Len(bus) : SipmStepOf(i) <= (IF n = 1 THEN 1 ELSE 6)
        /\ (bus # <<>> /\ bus[Len(bus)].res # OK /\ pc[S] # "dma_poll") =>
            /\ ret[S] = bus[Len(bus)].res
            /\ pc[S] \in SipmWrites \cup {"sipm_done"}
            /\ ph[S] = "call"
        /\ (SipmReturned /\ ret[S] = OK) =>
            (SipmTag <= 2 /\ bus # <<>> /\ SipmStepOf(Len(bus)) = 7)

C29_Witness ==
    /\ sipm.op = "read" /\ SipmTag = 2
    /\ SipmReturned /\ ret[S] = OK
    /\ Len(sipm.waits[1].seen) = 2 /\ Len(sipm.waits[2].seen) = 3
    /\ Len(bus) = 10

ST == "stream"
\* the latest ap130x_s_stream call has returned
StreamReturned == calls.n > 0 /\ pc[ST] = "idle"
\* positions in the bus log of what call n did: its register writes
\* (page-select writes apart), all its transfers, its sleeps
WritesOfCall(n) == {i \in 1 .. Len(bus) : bus[i].acc = n /\ bus[i].kind = "write"}
StepsOfCall(n) == {i \in 1 .. Len(bus) : bus[i].acc = n}
WroteTo(i, reg) ==
    /\ bus[i].kind = "write"
    /\ bus[i].addr = AP130X_REG_ADDR(AdvancedReg(reg))
    /\ bus[i].tag = AP130X_REG_SIZE(reg)
\* two starts, one right after the other, the first made while stalled
TwoStarts ==
    /\ calls.n = 2 /\ calls.script[1] = 1 /\ calls.script[2] = 1

\* C25 as stated: from STALLED, a start followed at once by a start makes
\* exactly one register write in all.
C25_TwoStartsOneWrite ==
    (TwoStarts /\ StreamReturned /\ calls.was) =>
        Cardinality(WritesOfCall(1) \cup WritesOfCall(2)) = 1

\* C25: from STALLED, a start that succeeds followed at once by a start:
\* the first start writes the output configuration (PREVIEW_HINF_CTRL,
\* PREVIEW_WIDTH, PREVIEW_HEIGHT, PREVIEW_OUT_FMT, then the controls) and
\* after it exactly one write of SYS_START, which clears the stall and is
\* its last transfer; the second start makes no transfer and leaves the
\* state STREAMING.
C25_SecondStartWritesNothing ==
    (TwoStarts /\ calls.was) =>
        /\ StepsOfCall(2) = {}
        /\ streaming
        /\ StreamReturned => ret[ST] = OK
        /\ Cardinality({i \in WritesOfCall(1) : WroteTo(i, AP130X_SYS_START)}) = 1
        /\ \A i \in WritesOfCall(1) :
            /\ bus[i].res = OK \/ WroteTo(i, AP130X_BRIGHTNESS)
            /\ WroteTo(i, AP130X_SYS_START) <=> i = Len(bus)
        /\ \A reg \in {AP130X_PREVIEW_HINF_CTRL, AP130X_PREVIEW_WIDTH,
                       AP130X_PREVIEW_HEIGHT, AP130X_PREVIEW_OUT_FMT} :
            \E i \in WritesOfCall(1) : WroteTo(i, reg) /\ bus[i].res = OK

C25_Witness ==
    /\ TwoStarts /\ StreamReturned /\ calls.was
    /\ Cardinality(WritesOfCall(1)) = 6

\* C26: a stop made while the stream state is STALLED, at first or after a
\* stop that succeeded, makes no register transfer and no sleep, returns 0
\* and leaves the state STALLED.
C26_StopWhenStalledIsNoOp ==
    (calls.n > 0 /\ calls.script[calls.n] = 0 /\ ~calls.was) =>
        /\ StepsOfCall(calls.n) = {}
        /\ ~streaming
        /\ pc[ST] \in {"stream_done", "idle"}
        /\ ret[ST] = OK

C26_Witness ==
    /\ calls.n = 3 /\ StreamReturned
    /\ calls.script = <<1, 0, 0>>
    /\ ~calls.was
    /\ \E i \in StepsOfCall(2) : bus[i].kind = "sleep"
    /\ \A i \in StepsOfCall(1) \cup StepsOfCall(2) : bus[i].res = OK

\* C27: a start or stop in which a register write failed returns the error
\* and leaves the stream state as it was when the call began; the state
\* differs from that only when every write of the call succeeded.
C27_FailedWriteKeepsState ==
    StreamReturned =>
        /\ (\E i \in StepsOfCall(calls.n) : bus[i].res # OK) =>
            (ret[ST] # OK /\ streaming = calls.was)
        /\ streaming # calls.was =>
            \A i \in StepsOfCall(calls.n) : bus[i].res = OK

\* ap130x_hw_init has returned 0 (line 2834): probe is at or after line 2838
BootSucceeded ==
    pc[P] \in {"hw_ready", "config_v4l2", "registered", "probe_failed", "removed"}

\* a caller of a subdev operation or of a debugfs attribute has entered one
OpBegun ==
    \/ \E t \in OpThreads : pc[t] # "idle" \/ ret[t] # OK
    \/ lock # "free"
    \/ debugfs.lock # "free"
    \/ debugfs.sipm_addr # NoDebugfs.sipm_addr

\* C28: no stream start or stop, control write, status log or debugfs proxy
\* operation begins before ap130x_hw_init has returned 0, none begins when
\* it returned an error, and once it has returned the boot sequencer of the
\* device does not run again.
C28_BootBeforeExposure ==
    /\ [](OpBegun => BootSucceeded)
    /\ [](BootFailed => (~debugfs.dir /\ ~OpBegun))
    /\ [][(BootSucceeded => BootSucceeded') /\ (BootFailed => BootFailed')]_vars

C28_Witness ==
    /\ pc[P] = "registered"
    /\ pc["stream"] # "idle"
    /\ pc["log"] # "idle"
    /\ \E t \in DebugfsCallers : pc[t] = "sipm_call"
    /\ retries > 0


\* the registers of the DMA engine, lines 277-294
DmaRegs == {AP130X_DMA_SIZE, AP130X_DMA_SRC, AP130X_DMA_DST, AP130X_DMA_CTRL}

\* caller t is at a read or write of a register of the DMA engine
AtDmaAccess(t) == pc[t] \in AccessLabels /\ RegOf(t) \in DmaRegs

\* caller t is between the first poll and the last step of ap130x_sipm_read
\* or ap130x_sipm_write
InTransaction(t) == pc[t] \in {"dma_poll", "sipm_result"} \cup SipmWrites

\* C22: while a caller is between the first idle poll and the last step of
\* a proxy transaction it holds debugfs.lock, and no other caller is in a
\* transaction or at a read or write of the DMA size, source, destination
\* or control register.
C22_TransactionsDoNotInterleave ==
    \A t \in Threads :
        InTransaction(t) =>
            /\ debugfs.lock = t
            /\ \A u \in Threads \ {t} : ~InTransaction(u) /\ ~AtDmaAccess(u)

C22_Witness ==
    /\ pc["dbg2"] = "sipm_ctrl"
    /\ sipm.op = "write"
    /\ debugfs.sipm_addr.i = 1
    /\ ret["dbg1"] \in BusErrors
    /\ sipm.waits # <<>> /\ Len(sipm.waits[1].seen) > 1


\* value v truncated to w bytes
Truncated(v, w) == IF w = 1 THEN v % 256 ELSE v % 65536

\* caller t has returned 0 from a proxy read that followed a proxy write
\* that returned 0, of the same sensor register on the same port
ReadAfterWrite(t) ==
    /\ pc[t] = "sipm_done" /\ ret[t] = OK
    /\ sipm.op = "read"
    /\ sipm.prev.op = "write" /\ sipm.prev.ret = OK
    /\ sipm.prev.reg = sipm.reg /\ sipm.prev.port = sipm.port

\* C21: a proxy read that follows a proxy write of value v to the same
\* sensor register of width w in {1, 2} on the same port, both returning 0,
\* returns v truncated to w bytes.
C21_ProxyRoundTrip ==
    \A t \in DebugfsCallers :
        ReadAfterWrite(t) =>
            /\ AP130X_REG_SIZE(sipm.reg) \in {1, 2}
            /\ sipm.val = Truncated(sipm.prev.val, AP130X_REG_SIZE(sipm.reg))

C21_Witness ==
    /\ ReadAfterWrite("dbg2")
    /\ AP130X_REG_SIZE(sipm.reg) = 1
    /\ sipm.prev.val = 109517
    /\ sipm.val = 205
    /\ Len(sipm.waits) = 2 /\ Len(sipm.waits[2].seen) > 1


\* the runs ap130x_write_fw_window has written since the last power-on
IsFwRun(x) == x.kind = "fw"
FwRuns == SelectSeq(bus, IsFwRun)

\* the runs r are whole, written in the order of the payload and cover its
\* first n bytes with no gap and no overlap
Reconstructs(r, n) ==
    /\ \A i \in 1 .. Len(r) :
        /\ r[i].res = OK /\ r[i].val > 0
        /\ r[i].acc = IF i = 1 THEN 0 ELSE r[i - 1].acc + r[i - 1].val
    /\ n = IF r = <<>> THEN 0 ELSE r[Len(r)].acc + r[Len(r)].val

\* C23: when ap130x_write_fw_window has returned 0 for a payload written
\* from cursor 0 (the PLL segment, of any length, through a window of any
\* size), the runs it wrote, end to end, are the payload with no byte
\* skipped, duplicated or out of order, and the cursor is the payload
\* length modulo the window size.
C23_WindowedWrite ==
    pc[P] = "lf_stage2" =>
        /\ Reconstructs(FwRuns, fw_file.pll_init_size)
        /\ win_pos = fw_file.pll_init_size % window

C23_Witness ==
    /\ pc[P] = "lf_stage2"
    /\ window = 2 /\ fw_file.pll_init_size = 5
    /\ Len(FwRuns) = 3
    /\ win_pos = 1


\* the offset in the window at which run x was written
WindowOffset(x) == x.addr - AP130X_FW_WINDOW_OFFSET

\* C24: in one load attempt the runs of the PLL segment and of the
\* remainder follow one another in the payload from byte 0, payload byte k
\* is written at window offset k mod W, the cursor is in [0, W) between
\* runs and no run extends past the end of the window; the image of 10000
\* bytes with a PLL segment of 100 is written through the window of 8192
\* bytes as 100 bytes at offset 0, 8092 at offset 100 and 1808 at offset 0.
C24_OneCircularStream ==
    LET r == FwRuns IN
    /\ win_pos \in 0 .. window - 1
    /\ \A i \in 1 .. Len(r) :
        /\ r[i].acc = IF i = 1 THEN 0 ELSE r[i - 1].acc + r[i - 1].val
        /\ i < Len(r) => r[i].res = OK
        /\ WindowOffset(r[i]) + r[i].val <= window
        /\ \A k \in r[i].acc .. r[i].acc + r[i].val - 1 :
            WindowOffset(r[i]) + (k - r[i].acc) = k % window
    /\ (fw_file = WindowImage /\ pc[P] = "lf_wait") =>
        /\ Len(r) = 3
        /\ <<WindowOffset(r[1]), r[1].val>> = <<0, 100>>
        /\ <<WindowOffset(r[2]), r[2].val>> = <<100, 8092>>
        /\ <<WindowOffset(r[3]), r[3].val>> = <<0, 1808>>

C24_Witness ==
    /\ fw_file = WindowImage /\ window = AP130X_FW_WINDOW_SIZE
    /\ pc[P] = "lf_wait"
    /\ Len(FwRuns) = 3
    /\ win_pos = 1808


\* The step of ap130x_load_firmware that made entry x of the bus log: 0 the
\* reads of ap130x_detect_chip, 1 the clear of the CRC accumulator, 2 a run
\* of the PLL segment, 3 stage = 2, 4 a run of the remainder, 5 stage =
\* 0xFFFF, 6 a step of ap130x_stall.
LoadStep(x) ==
    CASE x.kind = "read" -> 0
      [] x.kind = "fw" -> IF x.acc < fw_file.pll_init_size THEN 2 ELSE 4
      [] x.kind = "write" /\ x.addr = AP130X_REG_ADDR(AP130X_SIP_CRC) -> 1
      [] x.kind = "write" /\ x.addr = AP130X_REG_ADDR(AP130X_BOOTDATA_STAGE) ->
            IF x.val = 2 THEN 3 ELSE IF x.val = 65535 THEN 5 ELSE 7
      [] OTHER -> 6

\* the runs among the first n entries of the bus log
FwRunsBefore(n) == SelectSeq(SubSeq(bus, 1, n - 1), IsFwRun)

StopFromStreaming == calls.n > 0 /\ calls.script[calls.n] = 0 /\ calls.was
StallRequest == AP130X_SYS_START_PLL_LOCK + AP130X_SYS_START_STALL_MODE_DISABLED
StallEnable == StallRequest + AP130X_SYS_START_STALL_EN

\* C31: a stop from STREAMING writes SYS_START with the stall request, then
\* with the stall enable, then sleeps, then writes the interrupt enable
\* register of the advanced page (after its page select); nothing follows
\* a stall write that failed, and the state is STALLED only once the
\* interrupt enable write has succeeded, as the last transfer of the call.
C31_StopSequence ==
    StopFromStreaming =>
        LET steps == StepsOfCall(calls.n)
            sys == {i \in steps : WroteTo(i, AP130X_SYS_START)}
            naps == {i \in steps : bus[i].kind = "sleep"}
            inte == {i \in steps : WroteTo(i, AP130X_ADV_IRQ_SYS_INTE)}
            sels == {i \in steps : bus[i].kind = "select"}
        IN  /\ steps = sys \cup naps \cup inte \cup sels
            /\ Cardinality(sys) <= 2 /\ Cardinality(naps) <= 1 /\ Cardinality(inte) <= 1
            /\ \A i \in sys :
                bus[i].val = IF \E j \in sys : j < i THEN StallEnable ELSE StallRequest
            /\ \A i \in naps : Cardinality({j \in sys : j < i /\ bus[j].res = OK}) = 2
            /\ \A i \in inte \cup sels : \E j \in naps : j < i
            /\ (\E i \in sys : bus[i].res # OK) => naps \cup inte \cup sels = {}
            /\ ~streaming => \E i \in inte : bus[i].res = OK /\ i = Len(bus)
            /\ (StreamReturned /\ streaming) => ret[ST] # OK

C31_Witness ==
    /\ StopFromStreaming /\ StreamReturned /\ ~streaming
    /\ calls.n = 2
    /\ \E i \in StepsOfCall(2) : bus[i].kind = "select"
    /\ Cardinality(StepsOfCall(2)) = 5


\* a debugfs caller has returned 0 from a proxy transaction of operation op
ProxyDone(t, op) == pc[t] = "sipm_done" /\ ret[t] = OK /\ sipm.op = op

\* C32: a proxy read of width w returns the word of DMA_DST shifted right by
\* 32 - 8 * w bits (24 for width 1, 16 for width 2); a proxy write leaves
\* the value shifted left by 16 bits, modulo 2^32, in DMA_SRC (over the
\* register's own address in the low half) for both widths.
C32_ValuePlacement ==
    \A t \in DebugfsCallers :
        LET w == AP130X_REG_SIZE(sipm.reg) IN
        /\ ProxyDone(t, "read") =>
              /\ w \in {1, 2}
              /\ sipm.val = chip_dma.dst.hi \div (2 ^ ((32 - 8 * w) - 16))
        /\ ProxyDone(t, "write") =>
              /\ w \in {1, 2}
              /\ chip_dma.src.hi = sipm.val % 65536
              /\ chip_dma.src.lo = AP130X_REG_ADDR(AP130X_DMA_SRC)

C32_Witness ==
    /\ ProxyDone("dbg1", "read")
    /\ AP130X_REG_SIZE(sipm.reg) = 1
    /\ sipm.val = 205 /\ chip_dma.dst.hi = 205 * 256
    /\ chip_dma.src.hi # 0


(***************************************************************************)
(* The device from probe to removal with ap130x_s_stream callable once    *)
(* the subdevice is registered: the boot sequencer stores the stream      *)
(* state in the probe thread, ap130x_s_stream in its caller's.            *)
(***************************************************************************)
NextLife ==
    \/ Next
    \/ s_stream_enter
    \/ s_stream_done
    \/ StallSleep("stream")
    \/ ap130x_write_latched("stream")
    \/ ap130x_page_check("stream")
    \/ ap130x_page_select("stream")
    \/ ap130x_page_store("stream")
    \/ ap130x_target("stream")

SpecLife == Init /\ [][NextLife]_vars

\* the step in which thread t stores to ap130x->streaming: the return of a
\* successful ap130x_stall to ap130x_s_stream (lines 1780-1781, 1784-1785)
\* or to ap130x_load_firmware (lines 2484-2485)
StreamStore(t) ==
    /\ pc[t] \in {"stall_inte", "unstall"}
    /\ pc'[t] # pc[t]
    /\ ret'[t] = OK

InProxyCall(t) == pc[t] = "sipm_call" \/ pc[t] = "sipm_done" \/ InTransaction(t)

\* C34: a sipm_data read or write that follows an accepted sipm_addr write
\* of I000 0SSS 0000 0000 RRRR RRRR RRRR RRRR issues its proxy transaction
\* on port I, which is 0 or 1, with width S and register address R.
C34_ProxyFollowsAddress ==
    \A t \in DebugfsCallers :
        InProxyCall(t) =>
            /\ sipm.port = debugfs.sipm_addr.i
            /\ sipm.port \in {0, 1}
            /\ AP130X_REG_SIZE(sipm.reg) = (debugfs.sipm_addr.low \div 16777216) % 8
            /\ AP130X_REG_ADDR(sipm.reg) = debugfs.sipm_addr.low % 65536


\* access k of the chain failed with -EINVAL at the dispatch on its width tag
InvalidWidth(k) == BadWidth(k) /\ ~LatchedBefore(k) /\ xfer.rets[k] = "EINVAL"
\* the cached page when access k had returned
CacheAfter(k) == CacheBefore(k + 1)
\* access k is the latest one to have returned and no other has started
LatestReturned(k) == k = Len(xfer.rets) /\ (pc[X] = "xfer_done" \/ ph[X] = "call")

\* C35 as stated: a read or write that fails with -EINVAL on its width tag
\* has made no bus transfer and has left the cached page as it was, whatever
\* the page of its descriptor.
C35_InvalidWidthTouchesNothing ==
    \A k \in 1 .. Len(xfer.rets) :
        InvalidWidth(k) =>
            /\ SelectsOf(k) = {} /\ TargetsOf(k) = {}
            /\ CacheAfter(k) = CacheBefore(k)
            /\ LatestReturned(k) => reg_page = CacheBefore(k)

\* C35, amended: such an access never transfers its target register; with
\* page 0 or the cached page it makes no transfer and leaves the cache, with
\* another page it makes exactly the page-select write, which succeeded,
\* and the cached page is the page of the descriptor.
C35_InvalidWidthSelectsOnly ==
    \A k \in 1 .. Len(xfer.rets) :
        InvalidWidth(k) =>
            /\ TargetsOf(k) = {}
            /\ IF PageOfAccess(k) = 0 \/ PageOfAccess(k) = CacheBefore(k)
               THEN /\ SelectsOf(k) = {}
                    /\ CacheAfter(k) = CacheBefore(k)
                    /\ LatestReturned(k) => reg_page = CacheBefore(k)
               ELSE /\ Cardinality(SelectsOf(k)) = 1
                    /\ \A i \in SelectsOf(k) :
                          bus[i].res = OK /\ bus[i].val = PageOfAccess(k)
                    /\ CacheAfter(k) = PageOfAccess(k)
                    /\ LatestReturned(k) => reg_page = PageOfAccess(k)

C35_Witness ==
    /\ pc[X] = "xfer_done"
    /\ InvalidWidth(2) /\ xfer.chain[2].label = "xfer_read"
    /\ PageOfAccess(2) # 0 /\ CacheBefore(2) # 0 /\ CacheBefore(2) # PageOfAccess(2)
    /\ reg_page = PageOfAccess(2)
    /\ SelectsOf(2) # {}


StallRelease == StallEnable + AP130X_SYS_START_STALL_STATUS

\* C36: when a stream start or stop has returned, the stream state agrees
\* with the last value that reached SYS_START: STALLED when it is a value
\* ap130x_stall(true) writes, STREAMING when it is the value
\* ap130x_stall(false) writes.
C36_StateAgreesWithChip ==
    StreamReturned =>
        /\ chip_sys_start \in {StallRequest, StallEnable} => ~streaming
        /\ chip_sys_start = StallRelease => streaming


\* the latest call is a stream-on request made in the state STREAMING
StartWhileStreaming == calls.n > 0 /\ calls.script[calls.n] # 0 /\ calls.was

\* C37: a call of ap130x_s_stream with a non-zero enable, 1 or any other,
\* made while the state is STREAMING makes no transfer on the bus, returns
\* 0 and leaves the state STREAMING.
C37_StartWhileStreamingIsNoOp ==
    StartWhileStreaming =>
        /\ StepsOfCall(calls.n) = {}
        /\ streaming
        /\ pc[ST] \in {"stream_done", "idle"}
        /\ ret[ST] = OK


(***************************************************************************)
(* The boot sequencer in a probe thread that keeps running: ap130x_probe   *)
(* is called in process context and none of its steps waits for another   *)
(* thread, so a step that can be taken is taken.                           *)
(***************************************************************************)
SpecBootFair == Spec /\ WF_vars(Next)

\* the step is a call of ap130x_power_off: in the retry loop, at
\* error_power, or in ap130x_hw_cleanup called after a failed
\* ap130x_config_v4l2 or by ap130x_remove
IspPowerOffStep ==
    \/ pc[P] \in {"retry_power_off", "error_power"} /\ pc'[P] # pc[P]
    \/ pc[P] = "config_v4l2" /\ pc'[P] = "probe_failed"
    \/ pc[P] = "registered" /\ pc'[P] = "removed"
    \/ clk_en' < clk_en
    \/ \E i \in IspSupplyIds : isp_sup'[i] < isp_sup[i]
\* the step is a call of ap130x_power_off_sensors
SensorPowerOffStep ==
    \/ pc[P] = "error_power_sensors" /\ pc'[P] # pc[P]
    \/ pc[P] = "config_v4l2" /\ pc'[P] = "probe_failed"
    \/ pc[P] = "registered" /\ pc'[P] = "removed"
    \/ \E x \in Sensors \X SensorSupplyIds : sen_sup'[x] < sen_sup[x]
\* every ISP supply and the clock are enabled once and RESET is released
IspFullyPowered ==
    /\ IspPowered /\ clk_en = 1
    /\ \A i \in IspSupplyIds : isp_sup[i] = 1

\* C38: over the boot with its retries and failures, a failed probe after
\* the boot and the removal, ap130x_power_off runs only on an ISP that a
\* successful ap130x_power_on powered and nothing has powered off since,
\* ap130x_power_off_sensors only on powered sensors, and no supply or
\* clock is disabled more often than it was enabled.
C38_PowerOffBalanced ==
    /\ [](/\ clk_en >= 0
          /\ \A i \in IspSupplyIds : isp_sup[i] >= 0
          /\ \A x \in Sensors \X SensorSupplyIds : sen_sup[x] >= 0)
    /\ [][IspPowerOffStep => (IspFullyPowered /\ power_ons > 0)]_vars
    /\ [][SensorPowerOffStep => SensorsPowered]_vars

C38_Witness ==
    /\ pc[P] = "probe_failed"
    /\ power_ons = 2
    /\ topo.has_supplies
    /\ IspRailsOff /\ SensorRailsOff /\ reset_gpio = 1


\* C39: every run of ap130x_hw_init returns, with the device ready or with
\* an error, after at most MAX_FW_LOAD_RETRIES power-ons, whatever the
\* image, the bus failures and the CRC outcomes; in ap130x_write_fw_window
\* the cursor is below the window size whenever a run starts and every run
\* writes at least one byte.
C39_BootTerminates ==
    /\ <>BootReturned
    /\ [](power_ons <= MAX_FW_LOAD_RETRIES)
    /\ [](pc[P] \in {"lf_pll", "lf_rest"} => (win_pos >= 0 /\ win_pos < window))
    /\ [](\A i \in 1 .. Len(bus) : IsFwRun(bus[i]) => bus[i].val >= 1)

C39_Witness ==
    /\ BootFailed /\ ret[P] = "ETIMEDOUT"
    /\ power_ons = MAX_FW_LOAD_RETRIES
    /\ Len(FwRuns) = 3
    /\ FwRuns[3].addr = AP130X_FW_WINDOW_OFFSET


\* no address has been stored in debugfs.sipm_addr
AddrUnset == debugfs.sipm_addr = NoDebugfs.sipm_addr
\* the stored address has no bit outside 0x8700ffff and a size field of 1 or 2
AddrWellFormed ==
    /\ debugfs.sipm_addr.i \in {0, 1}
    /\ debugfs.sipm_addr.low \div 134217728 = 0
    /\ (debugfs.sipm_addr.low \div 65536) % 256 = 0
    /\ (debugfs.sipm_addr.low \div 16777216) % 8 \in {1, 2}
\* the step is a write of sipm_addr by t that returns -EINVAL
AddrRejected(t) ==
    pc[t] = "idle" /\ pc'[t] = "idle" /\ ret[t] # "EINVAL" /\ ret'[t] = "EINVAL"
\* the step is the entry of t into a read or write of sipm_data
DataBegun(t) == pc[t] = "idle" /\ pc'[t] # "idle"

\* C40: the stored proxy address is 0 or has no bit outside 0x8700ffff and
\* a size field of 1 or 2; a rejected write of sipm_addr leaves it as it
\* was; a read or write of sipm_data made while it is 0 returns -EINVAL
\* without a proxy transaction or any change of the chip; no proxy
\* transaction of a debugfs task has width 0.
C40_StoredAddressValid ==
    /\ [](AddrUnset \/ AddrWellFormed)
    /\ [](\A t \in DebugfsCallers :
            /\ InProxyCall(t) => (~AddrUnset /\ AP130X_REG_SIZE(sipm.reg) \in {1, 2})
            /\ pc[t] = "dbg_unlock" => (AddrUnset /\ ret[t] = "EINVAL"))
    /\ [][\A t \in DebugfsCallers :
            /\ AddrRejected(t) => debugfs' = debugfs
            /\ (DataBegun(t) /\ AddrUnset) =>
                  /\ pc'[t] = "dbg_unlock" /\ ret'[t] = "EINVAL"
                  /\ UNCHANGED <<hw_vars, reg_page, bus, sipm>>]_vars

C40_Witness ==
    /\ AddrUnset
    /\ pc["dbg2"] = "dbg_unlock" /\ ret["dbg2"] = "EINVAL"
    /\ pc["dbg1"] = "idle" /\ ret["dbg1"] = "EINVAL"


====
